---- MODULE Spec2Model ----
(***************************************************************************)
(* A model of tgo, the function tracer for Go programs.                    *)
(*                                                                         *)
(*   tracee.Process   (src/tracee/process.go): breakpoints and single      *)
(*                    stepping on top of the debug transport               *)
(*   tracer.Controller (src/tracer/controller.go): the trap handling loop  *)
(*                                                                         *)
(* The debug transport (debugapi / lldb client) is the environment: it     *)
(* holds the tracee's memory and registers, and any of its calls may fail. *)
(***************************************************************************)
EXTENDS Integers, Sequences, FiniteSets, TLC

(***************************************************************************)
(* Bounds of the model.                                                    *)
(***************************************************************************)
MaxRoutine == 2     \* go routine ids are 0..MaxRoutine (0: the id SetBreakpoint passes)
MaxTargets == 2     \* cap on the length of breakpoint.targetGoRoutineIDs (SpecProcess)
MaxDepth == 2       \* cap on the frames a go routine of the tracee has above its root
MaxTraceDepth == 1  \* SetDepth is called with -1..MaxTraceDepth

RoutineIDs == 0..MaxRoutine

\* the threads of the tracee; thread t runs the go routine with id t
Threads == {1, 2}

\* The functions of the tracee's binary, in the order Binary.ListFunctions returns
\* them.  Function f occupies the code addresses 4f .. 4f+3: its entry (Value), the
\* instruction after the entry, the return address of the calls it makes, and the
\* instruction after that.
FuncIDs == {0, 1, 2}
functions ==
    [f \in FuncIDs |->
        CASE f = 0 -> [Name |-> "runtime.main", Value |-> 0, exported |-> FALSE]
          [] f = 1 -> [Name |-> "main.f", Value |-> 4, exported |-> FALSE]
          [] f = 2 -> [Name |-> "main.g", Value |-> 8, exported |-> FALSE]]

CodeAddrs == UNION {{4 * f, 4 * f + 1, 4 * f + 2, 4 * f + 3} : f \in FuncIDs}

\* g.stack.hi of each go routine, and the stack words below it.  A call pushes the
\* return address (8 bytes), a function's prologue takes 16 more: the frame at depth
\* d is entered with 24d bytes used and runs with 24d+16 bytes used.
stackHi(g) == 1000 * g
StackAddrs == UNION {{stackHi(g) - 8 * k : k \in 1..(3 * MaxDepth + 2)} : g \in Threads}

\* the memory of the tracee when it is launched
text == [a \in CodeAddrs \cup StackAddrs |-> IF a \in CodeAddrs THEN 72 + a ELSE 0]

\* the code addresses a client of Process sets breakpoints at (SpecProcess)
Addrs == {0, 1}

VARIABLES
    mem,          \* tracee memory: code bytes and stack words
    regs,         \* tracee registers: [Threads -> [Rip |-> pc, Rsp |-> sp]]
    pending,      \* threads sitting on a trap the transport has not reported yet
    attached,     \* the transport is attached to the tracee
    binaryOpen,   \* Process.Binary is open
    breakpoints,  \* Process.breakpoints: address -> [orgInsts, targetGoRoutineIDs]
    trace,        \* the transport calls the last operation made, in order
    err,          \* the error the last operation returned ("nil": none)
    call,         \* the last operation and its arguments
    statusStore,  \* Controller.statusStore: go routine id -> goRoutineStatus
    tracingPoint, \* Controller.tracingPoint
    depth,        \* Controller.depth
    hitOnce,      \* Controller.hitOnce
    interrupted,  \* Controller.interrupted
    output,       \* the lines the last operation wrote to Controller.outputWriter
    loop,         \* where MainLoop is: "init", "waiting", "handling", "done"
    queue         \* the trapped thread ids handleTrapEvent has still to handle

pvars == <<mem, regs, pending, attached, binaryOpen, breakpoints, trace, err, call>>
cvars == <<statusStore, tracingPoint, depth, hitOnce, interrupted, output, loop, queue>>
vars == <<pvars, cvars>>

\* var breakpointInsts = []byte{0xcc}
breakpointInsts == 204

EmptyMap == [a \in {} |-> 0]

MapPut(m, k, v) == [a \in (DOMAIN m) \cup {k} |-> IF a = k THEN v ELSE m[a]]

MapDelete(m, k) == [a \in (DOMAIN m) \ {k} |-> m[a]]

(***************************************************************************)
(* The debug transport.  A process record p carries the tracee state (mem, *)
(* regs, attached, pending), the Process fields (breakpoints), the calls   *)
(* made so far (trace), the index of the call that fails (failAt), the     *)
(* index of the call during which the tracee ends and the event it ends    *)
(* with (exitAt, exitEvent), and the results of the last call (ret, err).  *)
(***************************************************************************)
Fails(p) == Len(p.trace) + 1 = p.failAt

Exits(p) == Len(p.trace) + 1 = p.exitAt

\* debugapi.EventType, and the signals a Terminated event carries in Data
EventTypes == {"EventTypeTrapped", "EventTypeCoreDump", "EventTypeExited", "EventTypeTerminated"}

Signals == {9, 15}

IsExitEvent(type) ==
    type = "EventTypeCoreDump" \/ type = "EventTypeExited" \/ type = "EventTypeTerminated"

\* the events the tracee ends with
ExitEvents ==
    {[Type |-> "EventTypeExited", Data |-> 0], [Type |-> "EventTypeCoreDump", Data |-> 0]}
        \cup {[Type |-> "EventTypeTerminated", Data |-> sig] : sig \in Signals}

\* debugapi.Event of a stopped thread
TrappedEvent == [Type |-> "EventTypeTrapped", Data |-> 0]

Logged(p, op, tid, addr, val, ok) ==
    Append(p.trace, [op |-> op, tid |-> tid, addr |-> addr, val |-> val, ok |-> ok])

ReadMemory(p, addr) ==
    IF Fails(p) \/ addr \notin DOMAIN p.mem
    THEN [p EXCEPT !.trace = Logged(p, "ReadMemory", 0, addr, 0, FALSE), !.err = "error"]
    ELSE [p EXCEPT !.trace = Logged(p, "ReadMemory", 0, addr, p.mem[addr], TRUE),
                   !.ret = p.mem[addr], !.err = "nil"]

WriteMemory(p, addr, val) ==
    IF Fails(p) \/ addr \notin DOMAIN p.mem
    THEN [p EXCEPT !.trace = Logged(p, "WriteMemory", 0, addr, val, FALSE), !.err = "error"]
    ELSE [p EXCEPT !.trace = Logged(p, "WriteMemory", 0, addr, val, TRUE),
                   !.mem[addr] = val, !.err = "nil"]

ReadRegisters(p, tid) ==
    IF Fails(p)
    THEN [p EXCEPT !.trace = Logged(p, "ReadRegisters", tid, 0, 0, FALSE), !.err = "error"]
    ELSE [p EXCEPT !.trace = Logged(p, "ReadRegisters", tid, p.regs[tid].Rip, 0, TRUE),
                   !.ret = p.regs[tid], !.err = "nil"]

WriteRegisters(p, tid, r) ==
    IF Fails(p)
    THEN [p EXCEPT !.trace = Logged(p, "WriteRegisters", tid, r.Rip, 0, FALSE), !.err = "error"]
    ELSE [p EXCEPT !.trace = Logged(p, "WriteRegisters", tid, r.Rip, 0, TRUE),
                   !.regs[tid] = r, !.err = "nil"]

\* The g of the thread (the go routine it runs).  As StepAndWait, the call reports
\* the threads sitting on a trap the transport has not reported yet.
ReadTLS(p, tid) ==
    IF Fails(p)
    THEN [p EXCEPT !.trace = Logged(p, "ReadTLS", tid, 0, 0, FALSE), !.err = "error"]
    ELSE IF p.pending \ {tid} # {}
    THEN [p EXCEPT !.trace = Logged(p, "ReadTLS", tid, 0, 0, FALSE),
                   !.ret = p.pending \ {tid}, !.pending = {},
                   !.err = "UnspecifiedThreadError"]
    ELSE [p EXCEPT !.trace = Logged(p, "ReadTLS", tid, 0, tid, TRUE),
                   !.ret = tid, !.err = "nil"]

\* the tracee is resumed; the event the call returns with comes from the tracee
ContinueAndWait(p) ==
    IF Fails(p)
    THEN [p EXCEPT !.trace = Logged(p, "ContinueAndWait", 0, 0, 0, FALSE), !.err = "error"]
    ELSE [p EXCEPT !.trace = Logged(p, "ContinueAndWait", 0, 0, 0, TRUE), !.err = "nil"]

\* One instruction of thread tid.  The call is logged with the pc and the byte the
\* thread executes there.  When other threads sit on a trap the transport has not
\* reported yet, it reports them now, with an UnspecifiedThreadError naming them,
\* and tid has not moved.  When the tracee ends during the step the call returns
\* the exit event.  The event is returned in ret.
StepAndWait(p, tid) ==
    LET pc == p.regs[tid].Rip
        byte == IF pc \in DOMAIN p.mem THEN p.mem[pc] ELSE 0
    IN  IF Fails(p)
        THEN [p EXCEPT !.trace = Logged(p, "StepAndWait", tid, pc, byte, FALSE), !.err = "error"]
        ELSE IF Exits(p)
        THEN [p EXCEPT !.trace = Logged(p, "StepAndWait", tid, pc, byte, FALSE),
                       !.ret = p.exitEvent, !.pending = {}, !.err = "nil"]
        ELSE IF p.pending \ {tid} # {}
        THEN [p EXCEPT !.trace = Logged(p, "StepAndWait", tid, pc, byte, FALSE),
                       !.ret = p.pending \ {tid}, !.pending = {},
                       !.err = "UnspecifiedThreadError"]
        ELSE [p EXCEPT !.trace = Logged(p, "StepAndWait", tid, pc, byte, TRUE),
                       !.ret = TrappedEvent,
                       !.regs[tid].Rip = pc + 1, !.pending = @ \ {tid}, !.err = "nil"]

DetachProcess(p) ==
    IF Fails(p)
    THEN [p EXCEPT !.trace = Logged(p, "DetachProcess", 0, 0, 0, FALSE), !.err = "error"]
    ELSE [p EXCEPT !.trace = Logged(p, "DetachProcess", 0, 0, 0, TRUE),
                   !.attached = FALSE, !.err = "nil"]

(***************************************************************************)
(* tracee.breakpoint                                                       *)
(***************************************************************************)
newBreakpoint(addr, orgInsts) == [orgInsts |-> orgInsts, targetGoRoutineIDs |-> <<>>]

AddTarget(bp, goRoutineID) ==
    [bp EXCEPT !.targetGoRoutineIDs = Append(@, goRoutineID)]

\* the index of the first occurrence of x in s, 0 when there is none
FirstIndex(s, x) ==
    IF \E i \in 1..Len(s) : s[i] = x
    THEN CHOOSE i \in 1..Len(s) : s[i] = x /\ \A j \in 1..(i - 1) : s[j] # x
    ELSE 0

RemoveAt(s, i) == SubSeq(s, 1, i - 1) \o SubSeq(s, i + 1, Len(s))

\* mutant: every occurrence of the go routine is removed
RemoveTarget_All(bp, goRoutineID) ==
    [bp EXCEPT !.targetGoRoutineIDs = SelectSeq(@, LAMBDA x : x # goRoutineID)]

RemoveTarget(bp, goRoutineID) ==
    LET i == FirstIndex(bp.targetGoRoutineIDs, goRoutineID)
    IN  IF i = 0 THEN bp ELSE [bp EXCEPT !.targetGoRoutineIDs = RemoveAt(@, i)]

NoTarget(bp) == Len(bp.targetGoRoutineIDs) = 0

\* mutant: an empty target list hits nobody
breakpoint_Hit_NeverEmpty(bp, goRoutineID) ==
    \E i \in 1..Len(bp.targetGoRoutineIDs) : bp.targetGoRoutineIDs[i] = goRoutineID

breakpoint_Hit(bp, goRoutineID) ==
    \/ \E i \in 1..Len(bp.targetGoRoutineIDs) : bp.targetGoRoutineIDs[i] = goRoutineID
    \/ Len(bp.targetGoRoutineIDs) = 0

(***************************************************************************)
(* tracee.Process: breakpoints                                             *)
(***************************************************************************)
\* mutant: the record is deleted and the original instruction is not written back
ClearBreakpoint_NoRestore(p, addr) ==
    IF addr \notin DOMAIN p.breakpoints
    THEN [p EXCEPT !.err = "nil"]
    ELSE [p EXCEPT !.breakpoints = MapDelete(@, addr), !.err = "nil"]

ClearBreakpoint(p, addr) ==
    IF addr \notin DOMAIN p.breakpoints
    THEN [p EXCEPT !.err = "nil"]
    ELSE LET p1 == WriteMemory(p, addr, p.breakpoints[addr].orgInsts)
         IN  IF p1.err # "nil"
             THEN p1
             ELSE [p1 EXCEPT !.breakpoints = MapDelete(@, addr)]

\* mutant: a breakpoint that is already set is read and written again
SetConditionalBreakpoint_Reread(p, addr, goRoutineID) ==
    LET p1 == ReadMemory(p, addr)
        p2 == WriteMemory(p1, addr, breakpointInsts)
        old == IF addr \in DOMAIN p.breakpoints
               THEN p.breakpoints[addr].targetGoRoutineIDs ELSE <<>>
        bp == [orgInsts |-> p1.ret, targetGoRoutineIDs |-> old]
    IN  IF p1.err # "nil" THEN p1
        ELSE IF p2.err # "nil" THEN p2
        ELSE [p2 EXCEPT !.breakpoints =
                 MapPut(@, addr, IF goRoutineID # 0 THEN AddTarget(bp, goRoutineID) ELSE bp)]

\* mutant: the trap instruction is written again when the breakpoint is already set
SetConditionalBreakpoint_Rewrite(p, addr, goRoutineID) ==
    IF addr \in DOMAIN p.breakpoints
    THEN LET p1 == WriteMemory(p, addr, breakpointInsts)
         IN  IF p1.err # "nil" THEN p1
             ELSE IF goRoutineID # 0
             THEN [p1 EXCEPT !.breakpoints[addr] = AddTarget(@, goRoutineID)]
             ELSE p1
    ELSE LET p1 == ReadMemory(p, addr)
             p2 == WriteMemory(p1, addr, breakpointInsts)
             bp == newBreakpoint(addr, p1.ret)
         IN  IF p1.err # "nil" THEN p1
             ELSE IF p2.err # "nil" THEN p2
             ELSE [p2 EXCEPT !.breakpoints =
                      MapPut(@, addr, IF goRoutineID # 0 THEN AddTarget(bp, goRoutineID) ELSE bp)]

SetConditionalBreakpoint(p, addr, goRoutineID) ==
    IF addr \in DOMAIN p.breakpoints
    THEN IF goRoutineID # 0
         THEN [p EXCEPT !.breakpoints[addr] = AddTarget(@, goRoutineID), !.err = "nil"]
         ELSE [p EXCEPT !.err = "nil"]
    ELSE LET p1 == ReadMemory(p, addr)
             originalInsts == p1.ret
             p2 == WriteMemory(p1, addr, breakpointInsts)
             bp == newBreakpoint(addr, originalInsts)
         IN  IF p1.err # "nil" THEN p1
             ELSE IF p2.err # "nil" THEN p2
             ELSE [p2 EXCEPT !.breakpoints =
                      MapPut(@, addr, IF goRoutineID # 0 THEN AddTarget(bp, goRoutineID) ELSE bp)]

SetBreakpoint(p, addr) == SetConditionalBreakpoint(p, addr, 0)

\* mutant: the breakpoint is cleared whether or not other go routines remain
ClearConditionalBreakpoint_IgnoresOthers(p, addr, goRoutineID) ==
    IF addr \notin DOMAIN p.breakpoints
    THEN [p EXCEPT !.err = "nil"]
    ELSE ClearBreakpoint([p EXCEPT !.breakpoints[addr] = RemoveTarget(@, goRoutineID)], addr)

ClearConditionalBreakpoint(p, addr, goRoutineID) ==
    IF addr \notin DOMAIN p.breakpoints
    THEN [p EXCEPT !.err = "nil"]
    ELSE LET p1 == [p EXCEPT !.breakpoints[addr] = RemoveTarget(@, goRoutineID)]
         IN  IF ~NoTarget(p1.breakpoints[addr])
             THEN [p1 EXCEPT !.err = "nil"]
             ELSE ClearBreakpoint(p1, addr)

HitBreakpoint(p, addr, goRoutineID) ==
    IF addr \notin DOMAIN p.breakpoints
    THEN FALSE
    ELSE breakpoint_Hit(p.breakpoints[addr], goRoutineID)

HasBreakpoint(p, addr) == addr \in DOMAIN p.breakpoints

(***************************************************************************)
(* tracee.Process: single stepping and detaching                           *)
(***************************************************************************)
setPC(p, threadID, addr) ==
    LET p1 == ReadRegisters(p, threadID)
    IN  IF p1.err # "nil" THEN p1
        ELSE WriteRegisters(p1, threadID, [p1.ret EXCEPT !.Rip = addr])

close(p) == [p EXCEPT !.binaryOpen = FALSE, !.err = "nil"]

\* mutant: the binary is not closed when the tracee ends during the step
stepAndWait_NoClose(p, threadID) == StepAndWait(p, threadID)

stepAndWait(p, threadID) ==
    LET p1 == StepAndWait(p, threadID)
    IN  IF p1.err = "nil" /\ IsExitEvent(p1.ret.Type) THEN close(p1) ELSE p1

\* the elements of a set of thread ids as the list the transport reports
RECURSIVE ThreadList(_)
ThreadList(S) ==
    IF S = {} THEN <<>>
    ELSE LET t == CHOOSE x \in S : \A y \in S : x <= y
         IN  <<t>> \o ThreadList(S \ {t})

RECURSIVE SingleStep(_, _, _)
RECURSIVE singleStepThreads(_, _, _)

\* the loop of singleStepUnspecifiedThreads over the rest of err.ThreadIDs
singleStepThreads(p, threadID, threadIDs) ==
    IF threadIDs = <<>> THEN [p EXCEPT !.err = "nil"]
    ELSE IF Head(threadIDs) = threadID THEN singleStepThreads(p, threadID, Tail(threadIDs))
    ELSE LET p1 == ReadRegisters(p, Head(threadIDs))
             p2 == SingleStep(p1, Head(threadIDs), p1.ret.Rip - 1)
         IN  IF p1.err # "nil" THEN p1
             ELSE IF p2.err # "nil" THEN p2
             ELSE singleStepThreads(p2, threadID, Tail(threadIDs))

\* mutant: the threads the error names are not stepped
singleStepUnspecifiedThreads_Nothing(p, threadID, unspecified) ==
    [p EXCEPT !.err = "nil"]

singleStepUnspecifiedThreads(p, threadID, unspecified) ==
    singleStepThreads(p, threadID, ThreadList(unspecified))

\* mutant: the step is made over the trap byte, the original byte is not restored
SingleStep_NoRestore(p, threadID, trappedAddr) ==
    LET p1 == setPC(p, threadID, trappedAddr)
        bpSet == trappedAddr \in DOMAIN p1.breakpoints
        p3 == stepAndWait(p1, threadID)
        p4 == singleStepUnspecifiedThreads(p3, threadID, p3.ret)
    IN  IF p1.err # "nil" THEN p1
        ELSE IF p3.err = "UnspecifiedThreadError"
             THEN IF p4.err # "nil" THEN p4 ELSE SingleStep(p4, threadID, trappedAddr)
        ELSE IF p3.err # "nil" THEN p3
        ELSE IF bpSet THEN WriteMemory(p3, trappedAddr, breakpointInsts)
        ELSE p3

SingleStep(p, threadID, trappedAddr) ==
    LET p1 == setPC(p, threadID, trappedAddr)
        bpSet == trappedAddr \in DOMAIN p1.breakpoints
        p2 == IF bpSet
              THEN WriteMemory(p1, trappedAddr, p1.breakpoints[trappedAddr].orgInsts)
              ELSE p1
        p3 == stepAndWait(p2, threadID)
        p4 == singleStepUnspecifiedThreads(p3, threadID, p3.ret)
    IN  IF p1.err # "nil" THEN p1
        ELSE IF p2.err # "nil" THEN p2
        ELSE IF p3.err = "UnspecifiedThreadError"
             THEN IF p4.err # "nil" THEN p4 ELSE SingleStep(p4, threadID, trappedAddr)
        ELSE IF p3.err # "nil" THEN p3
        ELSE IF bpSet THEN WriteMemory(p3, trappedAddr, breakpointInsts)
        ELSE p3

\* the loop of Detach over the breakpoints, in the order the map is ranged over
RECURSIVE clearBreakpoints(_, _)
clearBreakpoints(p, order) ==
    IF order = <<>> THEN [p EXCEPT !.err = "nil"]
    ELSE LET p1 == ClearBreakpoint(p, Head(order))
         IN  IF p1.err # "nil" THEN p1 ELSE clearBreakpoints(p1, Tail(order))

\* mutant: the transport is detached before the breakpoints are cleared
Detach_DetachFirst(p, order) ==
    LET p1 == DetachProcess(p)
        p2 == clearBreakpoints(p1, order)
    IN  IF p1.err # "nil" THEN p1
        ELSE IF p2.err # "nil" THEN p2
        ELSE close(p2)

Detach(p, order) ==
    LET p1 == clearBreakpoints(p, order)
        p2 == DetachProcess(p1)
    IN  IF p1.err # "nil" THEN p1
        ELSE IF p2.err # "nil" THEN p2
        ELSE close(p2)

\* the orders in which a range over a map with key set S may visit it
Orders(S) ==
    {s \in [1..Cardinality(S) -> S] : \A i, j \in 1..Cardinality(S) : s[i] = s[j] => i = j}

(***************************************************************************)
(* tracee.Process: go routine info and stack frames                        *)
(***************************************************************************)
\* if err != nil { return err }: the rest of the function, K, runs when p holds no error
Try(p, K(_)) == IF p.err # "nil" THEN p ELSE K(p)

RECURSIVE CurrentGoRoutineInfo(_, _)
CurrentGoRoutineInfo(p, threadID) ==
    LET info(id, r) == [ID |-> id,
                        UsedStackSize |-> stackHi(id) - r.Rsp,
                        CurrentPC |-> r.Rip,
                        CurrentStackAddr |-> r.Rsp,
                        Panicking |-> FALSE,
                        DeferedBy |-> [isNil |-> TRUE, UsedStackSize |-> 0]]
        rest(p1) ==
            IF p1.err = "UnspecifiedThreadError"
            THEN Try(singleStepUnspecifiedThreads(p1, threadID, p1.ret),
                     LAMBDA p2 : CurrentGoRoutineInfo(p2, threadID))
            ELSE Try(p1, LAMBDA q1 :
                 Try(ReadRegisters(q1, threadID), LAMBDA p3 :
                     [p3 EXCEPT !.ret = info(q1.ret, p3.ret)]))
    IN  rest(ReadTLS(p, threadID))

\* fmt.Errorf("no moduledata found for pc %#x", pc)
ErrNoModuleData == "no moduledata found for pc"

\* the function whose code holds pc; the lookup misses the functions of p.unresolved
\* (neither the debug information nor the module data of the binary resolves them)
FindFunction(p, pc) ==
    IF \E f \in FuncIDs \ p.unresolved :
           functions[f].Value <= pc /\ pc < functions[f].Value + 4
    THEN [p EXCEPT !.ret = functions[CHOOSE f \in FuncIDs :
                                 functions[f].Value <= pc /\ pc < functions[f].Value + 4],
                   !.err = "nil"]
    ELSE [p EXCEPT !.err = ErrNoModuleData]

\* The frame whose base pointer is rbp: the return address is the word above it.
\* The functions of the tracee take and return no arguments.
StackFrameAt(p, rbp, rip) ==
    LET p1 == FindFunction(p, rip)
        function == p1.ret
        p2 == ReadMemory(p1, rbp + 8)
    IN  IF p1.err # "nil" THEN p1
        ELSE IF p2.err # "nil" THEN p2
        ELSE [p2 EXCEPT !.ret = [Function |-> function, ReturnAddress |-> p2.ret,
                                 InputArguments |-> <<>>, OutputArguments |-> <<>>]]

(***************************************************************************)
(* tracer.tracingPoint                                                     *)
(***************************************************************************)
tracingPoint_Hit(tp, pc) == pc = tp.function.Value

tracingPoint_Inside(tp, goRoutineID) ==
    \E i \in 1..Len(tp.goRoutinesInside) : tp.goRoutinesInside[i].id = goRoutineID

\* mutant: the go routine is added whether or not it has entered already
tracingPoint_Enter_Again(tp, goRoutineID, stackDepth) ==
    [tp EXCEPT !.goRoutinesInside = Append(@, [id |-> goRoutineID, stackDepth |-> stackDepth])]

tracingPoint_Enter(tp, goRoutineID, stackDepth) ==
    IF tracingPoint_Inside(tp, goRoutineID)
    THEN tp
    ELSE [tp EXCEPT !.goRoutinesInside =
              Append(@, [id |-> goRoutineID, stackDepth |-> stackDepth])]

\* mutant: the first go routine recorded with the depth is removed, whichever it is
tracingPoint_Exit_AnyRoutine(tp, goRoutineID, stackDepth) ==
    LET match(i) == tp.goRoutinesInside[i].stackDepth = stackDepth
    IN  IF \E i \in 1..Len(tp.goRoutinesInside) : match(i)
        THEN LET i == CHOOSE k \in 1..Len(tp.goRoutinesInside) :
                          match(k) /\ \A j \in 1..(k - 1) : ~match(j)
             IN  [tp EXCEPT !.goRoutinesInside = RemoveAt(@, i)]
        ELSE tp

tracingPoint_Exit(tp, goRoutineID, stackDepth) ==
    LET match(i) == /\ tp.goRoutinesInside[i].id = goRoutineID
                    /\ tp.goRoutinesInside[i].stackDepth = stackDepth
    IN  IF \E i \in 1..Len(tp.goRoutinesInside) : match(i)
        THEN LET i == CHOOSE k \in 1..Len(tp.goRoutinesInside) :
                          match(k) /\ \A j \in 1..(k - 1) : ~match(j)
             IN  [tp EXCEPT !.goRoutinesInside = RemoveAt(@, i)]
        ELSE tp

tracingPoint_Depth(tp, goRoutineID, currDepth) ==
    IF tracingPoint_Inside(tp, goRoutineID)
    THEN LET i == CHOOSE k \in 1..Len(tp.goRoutinesInside) :
                      /\ tp.goRoutinesInside[k].id = goRoutineID
                      /\ \A j \in 1..(k - 1) : tp.goRoutinesInside[j].id # goRoutineID
         IN  currDepth - tp.goRoutinesInside[i].stackDepth
    ELSE -1

(***************************************************************************)
(* tracer.Controller.  A controller record c is a process record with the  *)
(* fields of the Controller: statusStore, tracingPoint, depth, hitOnce,    *)
(* interrupted, and the lines written to outputWriter (output).            *)
(***************************************************************************)
NoStatus == [callingFunctions |-> <<>>, panicking |-> FALSE]

\* status, _ := c.statusStore[goRoutineID]
statusOf(c, goRoutineID) ==
    IF goRoutineID \in DOMAIN c.statusStore THEN c.statusStore[goRoutineID] ELSE NoStatus

\* mutant: the size recorded for the first calling function, not the last
usedStackSize_First(status) ==
    IF Len(status.callingFunctions) > 0
    THEN status.callingFunctions[1].usedStackSize
    ELSE 0

\* mutant: a go routine without calling functions is taken to use all of its stack
usedStackSize_NoFrames(status) ==
    IF Len(status.callingFunctions) > 0
    THEN status.callingFunctions[Len(status.callingFunctions)].usedStackSize
    ELSE 1000

usedStackSize(status) ==
    IF Len(status.callingFunctions) > 0
    THEN status.callingFunctions[Len(status.callingFunctions)].usedStackSize
    ELSE 0

\* strings.HasPrefix, for the names of functions
HasPrefix(name, prefix) ==
    Len(prefix) <= Len(name) /\ SubSeq(name, 1, Len(prefix)) = prefix

\* Function.IsExported: the first letter of the name after the last dot is upper-case
UpperCase == {"A", "B", "C", "D", "E", "F", "G", "H", "I", "J", "K", "L", "M",
              "N", "O", "P", "Q", "R", "S", "T", "U", "V", "W", "X", "Y", "Z"}

IsExported(name) ==
    LET dots == {i \in 1..Len(name) : SubSeq(name, i, i) = "."}
        last == IF dots = {} THEN 0 ELSE CHOOSE i \in dots : \A j \in dots : j <= i
    IN  last < Len(name) /\ SubSeq(name, last + 1, last + 1) \in UpperCase

canSetBreakpoint(function) ==
    IF function.Name \in {"runtime.deferproc", "runtime.gopanic", "runtime.gorecover"}
    THEN TRUE
    ELSE IF HasPrefix(function.Name, "runtime") /\ ~function.exported
    THEN FALSE
    ELSE IF \E prefix \in {"_rt0", "type."} : HasPrefix(function.Name, prefix)
    THEN FALSE
    ELSE TRUE

findFunction(c, functionName) ==
    IF \E f \in FuncIDs : functions[f].Name = functionName
    THEN [c EXCEPT !.ret = functions[CHOOSE f \in FuncIDs :
                                 /\ functions[f].Name = functionName
                                 /\ \A h \in FuncIDs : functions[h].Name = functionName => f <= h],
                   !.err = "nil"]
    ELSE [c EXCEPT !.err = "failed to find function"]

\* mutant: the tracing point is set again when it is set already
SetTracingPoint_Again(c, functionName) ==
    LET c1 == findFunction(c, functionName)
        function == c1.ret
        c2 == SetBreakpoint(c1, function.Value)
    IN  IF c1.err # "nil" THEN c1
        ELSE IF ~canSetBreakpoint(function) THEN [c1 EXCEPT !.err = "can't set the tracing point"]
        ELSE IF c2.err # "nil" THEN c2
        ELSE [c2 EXCEPT !.tracingPoint =
                  [isNil |-> FALSE, function |-> function, goRoutinesInside |-> <<>>]]

SetTracingPoint(c, functionName) ==
    LET c1 == findFunction(c, functionName)
        function == c1.ret
        c2 == SetBreakpoint(c1, function.Value)
    IN  IF ~c.tracingPoint.isNil THEN [c EXCEPT !.err = "tracing point is set already"]
        ELSE IF c1.err # "nil" THEN c1
        ELSE IF ~canSetBreakpoint(function) THEN [c1 EXCEPT !.err = "can't set the tracing point"]
        ELSE IF c2.err # "nil" THEN c2
        ELSE [c2 EXCEPT !.tracingPoint =
                  [isNil |-> FALSE, function |-> function, goRoutinesInside |-> <<>>]]

SetDepth(c, d) == [c EXCEPT !.depth = d]

\* fmt.Errorf("the process exited due to signal %d", event.Data)
Errorf_signal(data) ==
    CASE data = 9 -> "the process exited due to signal 9"
      [] data = 15 -> "the process exited due to signal 15"
      [] OTHER -> "the process exited due to signal ?"

\* mutant: every event that is not a trap makes MainLoop return nil
mainLoopEvent_Nil(c, event) == [c EXCEPT !.err = "nil"]

\* what the switch of MainLoop returns for an event that is not a trap
mainLoopEvent(c, event) ==
    CASE event.Type = "EventTypeExited" -> [c EXCEPT !.err = "nil"]
      [] event.Type = "EventTypeCoreDump" ->
             [c EXCEPT !.err = "the process exited due to core dump"]
      [] event.Type = "EventTypeTerminated" -> [c EXCEPT !.err = Errorf_signal(event.Data)]
      [] OTHER -> [c EXCEPT !.err = "unknown event"]

Interrupt(c) == [c EXCEPT !.interrupted = TRUE]

isPanicking(status) ==
    \E i \in 1..Len(status.callingFunctions) :
        status.callingFunctions[i].Function.Name = "runtime.gopanic"

findNumFramesToSkip(callingFuncs, size) ==
    IF \E i \in 1..Len(callingFuncs) : callingFuncs[i].usedStackSize < size
    THEN LET i == CHOOSE k \in 1..Len(callingFuncs) :
                      /\ callingFuncs[k].usedStackSize < size
                      /\ \A j \in (k + 1)..Len(callingFuncs) : ~(callingFuncs[j].usedStackSize < size)
         IN  Len(callingFuncs) - i
    ELSE Len(callingFuncs) - 1

\* the loop of setBreakpointsExceptTracingPoint over the functions from f on
RECURSIVE setBreakpointsFrom(_, _)
setBreakpointsFrom(c, f) ==
    IF f \notin FuncIDs THEN [c EXCEPT !.err = "nil"]
    ELSE IF ~canSetBreakpoint(functions[f]) \/ functions[f].Name = c.tracingPoint.function.Name
    THEN setBreakpointsFrom(c, f + 1)
    ELSE LET c1 == SetBreakpoint(c, functions[f].Value)
         IN  IF c1.err # "nil" THEN c1 ELSE setBreakpointsFrom(c1, f + 1)

\* mutant: no breakpoint is set
setBreakpointsExceptTracingPoint_None(c) == [c EXCEPT !.err = "nil"]

setBreakpointsExceptTracingPoint(c) == setBreakpointsFrom(c, 0)

\* mutant: the depth is not looked at
canPrint_AnyDepth(c, goRoutineID, currStackDepth) ==
    tracingPoint_Inside(c.tracingPoint, goRoutineID)

canPrint(c, goRoutineID, currStackDepth) ==
    /\ tracingPoint_Inside(c.tracingPoint, goRoutineID)
    /\ tracingPoint_Depth(c.tracingPoint, goRoutineID, currStackDepth) <= c.depth

currentStackFrame(c, goRoutineInfo) ==
    StackFrameAt(c, goRoutineInfo.CurrentStackAddr - 8, goRoutineInfo.CurrentPC)

prevStackFrame(c, goRoutineInfo, rip) ==
    StackFrameAt(c, goRoutineInfo.CurrentStackAddr - 16, rip)

Line(dir, goRoutineID, stackFrame, d) ==
    [dir |-> dir, indent |-> d - 1, goRoutineID |-> goRoutineID,
     name |-> stackFrame.Function.Name]

printFunctionInput(c, goRoutineID, stackFrame, d) ==
    [c EXCEPT !.output = Append(@, Line("=>", goRoutineID, stackFrame, d)), !.err = "nil"]

\* mutant: the return line is printed one level deeper
printFunctionOutput_Deeper(c, goRoutineID, stackFrame, d) ==
    [c EXCEPT !.output = Append(@, Line("<=", goRoutineID, stackFrame, d + 1)), !.err = "nil"]

printFunctionOutput(c, goRoutineID, stackFrame, d) ==
    [c EXCEPT !.output = Append(@, Line("<=", goRoutineID, stackFrame, d)), !.err = "nil"]

handleTrapAtUnrelatedBreakpoint(c, threadID, goRoutineInfo) ==
    SingleStep(c, threadID, goRoutineInfo.CurrentPC - 1)

\* the depth of the frame, less the frames a panic has unwound
currStackDepthOf(status, goRoutineInfo, d) ==
    IF isPanicking(status) /\ ~goRoutineInfo.DeferedBy.isNil
    THEN d - findNumFramesToSkip(status.callingFunctions, goRoutineInfo.DeferedBy.UsedStackSize)
    ELSE d

\* mutant: the calling function is recorded only when its line is printed
handleTrapAtFunctionCall_PushWhenPrinted(c, threadID, goRoutineInfo) ==
    LET goRoutineID == goRoutineInfo.ID
        status == statusOf(c, goRoutineID)
        currStackDepth ==
            currStackDepthOf(status, goRoutineInfo, Len(status.callingFunctions) + 1)
        hit == tracingPoint_Hit(c.tracingPoint, goRoutineInfo.CurrentPC - 1)
        enter(c1) ==
            IF hit
            THEN [c1 EXCEPT !.hitOnce = TRUE,
                            !.tracingPoint = tracingPoint_Enter(@, goRoutineID, currStackDepth)]
            ELSE c1
        printed(c3) == canPrint(c3, goRoutineID, currStackDepth)
        store(c6, stackFrame) ==
            [c6 EXCEPT !.statusStore =
                 MapPut(@, goRoutineID,
                        [callingFunctions |->
                             Append(status.callingFunctions,
                                    [Function |-> stackFrame.Function,
                                     returnAddress |-> stackFrame.ReturnAddress,
                                     usedStackSize |-> goRoutineInfo.UsedStackSize]),
                         panicking |-> isPanicking(status)])]
    IN  IF c.tracingPoint.isNil THEN [c EXCEPT !.err = "panic"]
        ELSE
        Try(IF hit /\ ~c.hitOnce THEN setBreakpointsExceptTracingPoint(c) ELSE c, LAMBDA c1 :
        Try(currentStackFrame(enter(c1), goRoutineInfo), LAMBDA c3 :
        Try(IF printed(c3) THEN printFunctionInput(c3, goRoutineID, c3.ret, currStackDepth)
            ELSE c3, LAMBDA c4 :
        Try(SetConditionalBreakpoint(c4, c3.ret.ReturnAddress, goRoutineID), LAMBDA c5 :
        Try(SingleStep(c5, threadID, c3.ret.Function.Value), LAMBDA c6 :
            IF printed(c3) THEN store(c6, c3.ret) ELSE c6)))))

handleTrapAtFunctionCall(c, threadID, goRoutineInfo) ==
    LET goRoutineID == goRoutineInfo.ID
        status == statusOf(c, goRoutineID)
        panicking == isPanicking(status)
        currStackDepth ==
            currStackDepthOf(status, goRoutineInfo, Len(status.callingFunctions) + 1)
        hit == tracingPoint_Hit(c.tracingPoint, goRoutineInfo.CurrentPC - 1)
        enter(c1) ==
            IF hit
            THEN [c1 EXCEPT !.hitOnce = TRUE,
                            !.tracingPoint = tracingPoint_Enter(@, goRoutineID, currStackDepth)]
            ELSE c1
        print(c3) ==
            IF canPrint(c3, goRoutineID, currStackDepth)
            THEN printFunctionInput(c3, goRoutineID, c3.ret, currStackDepth)
            ELSE c3
        callingFunc(stackFrame) ==
            [Function |-> stackFrame.Function,
             returnAddress |-> stackFrame.ReturnAddress,
             usedStackSize |-> goRoutineInfo.UsedStackSize]
        store(c6, stackFrame) ==
            [c6 EXCEPT !.statusStore =
                 MapPut(@, goRoutineID,
                        [callingFunctions |->
                             Append(status.callingFunctions, callingFunc(stackFrame)),
                         panicking |-> panicking])]
    IN  IF c.tracingPoint.isNil THEN [c EXCEPT !.err = "panic"]
        ELSE
        Try(IF hit /\ ~c.hitOnce THEN setBreakpointsExceptTracingPoint(c) ELSE c, LAMBDA c1 :
        Try(currentStackFrame(enter(c1), goRoutineInfo), LAMBDA c3 :
        Try(print(c3), LAMBDA c4 :
        Try(SetConditionalBreakpoint(c4, c3.ret.ReturnAddress, goRoutineID), LAMBDA c5 :
        Try(SingleStep(c5, threadID, c3.ret.Function.Value), LAMBDA c6 :
            store(c6, c3.ret))))))

\* mutant: the interest in the breakpoint is removed before the thread is stepped
handleTrapAtFunctionReturn_ClearFirst(c, threadID, goRoutineInfo) ==
    LET goRoutineID == goRoutineInfo.ID
        status == statusOf(c, goRoutineID)
        n == Len(status.callingFunctions)
        currStackDepth == currStackDepthOf(status, goRoutineInfo, n)
        breakpointAddr == goRoutineInfo.CurrentPC - 1
        function == status.callingFunctions[n].Function
        exit(c2) ==
            IF tracingPoint_Hit(c2.tracingPoint, function.Value)
            THEN [c2 EXCEPT !.tracingPoint = tracingPoint_Exit(@, goRoutineID, currStackDepth)]
            ELSE c2
        print(c0) ==
            IF ~canPrint(c0, goRoutineID, currStackDepth) THEN c0
            ELSE Try(prevStackFrame(c0, goRoutineInfo, function.Value), LAMBDA c1 :
                 Try(printFunctionOutput(c1, goRoutineID, c1.ret, currStackDepth),
                     LAMBDA c2 : exit(c2)))
    IN  IF n = 0 THEN [c EXCEPT !.err = "panic"]
        ELSE
        Try(print(c), LAMBDA c3 :
        Try(ClearConditionalBreakpoint(c3, breakpointAddr, goRoutineID), LAMBDA c4 :
        Try(SingleStep(c4, threadID, breakpointAddr), LAMBDA c5 :
            [c5 EXCEPT !.statusStore =
                 MapPut(@, goRoutineID,
                        [callingFunctions |-> SubSeq(status.callingFunctions, 1, n - 1),
                         panicking |-> isPanicking(status)])])))

handleTrapAtFunctionReturn(c, threadID, goRoutineInfo) ==
    LET goRoutineID == goRoutineInfo.ID
        status == statusOf(c, goRoutineID)
        n == Len(status.callingFunctions)
        panicking == isPanicking(status)
        currStackDepth == currStackDepthOf(status, goRoutineInfo, n)
        breakpointAddr == goRoutineInfo.CurrentPC - 1
        exit(c2, function) ==
            IF tracingPoint_Hit(c2.tracingPoint, function.Value)
            THEN [c2 EXCEPT !.tracingPoint = tracingPoint_Exit(@, goRoutineID, currStackDepth)]
            ELSE c2
        print(c0) ==
            IF ~canPrint(c0, goRoutineID, currStackDepth) THEN c0
            ELSE IF n = 0 THEN [c0 EXCEPT !.err = "panic"]
            ELSE Try(prevStackFrame(c0, goRoutineInfo, status.callingFunctions[n].Function.Value),
                     LAMBDA c1 :
                 Try(printFunctionOutput(c1, goRoutineID, c1.ret, currStackDepth),
                     LAMBDA c2 : exit(c2, status.callingFunctions[n].Function)))
        store(c5) ==
            IF n = 0 THEN [c5 EXCEPT !.err = "panic"]
            ELSE [c5 EXCEPT !.statusStore =
                      MapPut(@, goRoutineID,
                             [callingFunctions |-> SubSeq(status.callingFunctions, 1, n - 1),
                              panicking |-> panicking])]
    IN  Try(print(c), LAMBDA c3 :
        Try(SingleStep(c3, threadID, breakpointAddr), LAMBDA c4 :
        Try(ClearConditionalBreakpoint(c4, breakpointAddr, goRoutineID), LAMBDA c5 :
            store(c5))))

\* mutant: a trap with the tracked stack size is handled as a function call
handleTrapEventOfThread_EqualIsCall(c, threadID) ==
    Try(CurrentGoRoutineInfo(c, threadID), LAMBDA c1 :
        IF ~HitBreakpoint(c1, c1.ret.CurrentPC - 1, c1.ret.ID)
        THEN handleTrapAtUnrelatedBreakpoint(c1, threadID, c1.ret)
        ELSE IF c1.ret.UsedStackSize < usedStackSize(statusOf(c1, c1.ret.ID))
        THEN handleTrapAtFunctionReturn(c1, threadID, c1.ret)
        ELSE handleTrapAtFunctionCall(c1, threadID, c1.ret))

handleTrapEventOfThread(c, threadID) ==
    Try(CurrentGoRoutineInfo(c, threadID), LAMBDA c1 :
        IF ~HitBreakpoint(c1, c1.ret.CurrentPC - 1, c1.ret.ID)
        THEN handleTrapAtUnrelatedBreakpoint(c1, threadID, c1.ret)
        ELSE IF c1.ret.UsedStackSize < usedStackSize(statusOf(c1, c1.ret.ID))
        THEN handleTrapAtFunctionReturn(c1, threadID, c1.ret)
        ELSE IF c1.ret.UsedStackSize = usedStackSize(statusOf(c1, c1.ret.ID))
        THEN handleTrapAtUnrelatedBreakpoint(c1, threadID, c1.ret)
        ELSE handleTrapAtFunctionCall(c1, threadID, c1.ret))

(***************************************************************************)
(* SpecProcess: a client calls the operations of one Process in any order, *)
(* with any arguments; every call succeeds (no transport call fails).      *)
(***************************************************************************)
\* the process as it stands before an operation whose failAt-th transport call fails
\* (0: none fails)
Proc(failAt) ==
    [mem |-> mem, regs |-> regs, pending |-> pending, attached |-> attached,
     binaryOpen |-> binaryOpen, breakpoints |-> breakpoints,
     trace |-> <<>>, failAt |-> failAt, exitAt |-> 0, exitEvent |-> TrappedEvent,
     unresolved |-> {},
     ret |-> 0, err |-> "nil"]

Cur == Proc(0)

CommitProcess(p) ==
    /\ mem' = p.mem
    /\ regs' = p.regs
    /\ pending' = p.pending
    /\ attached' = p.attached
    /\ binaryOpen' = p.binaryOpen
    /\ breakpoints' = p.breakpoints
    /\ trace' = p.trace
    /\ err' = p.err

Commit(p) == CommitProcess(p) /\ UNCHANGED cvars

Called(op, tid, addr, gid) == [op |-> op, tid |-> tid, addr |-> addr, gid |-> gid]

CanAddTarget(addr) ==
    addr \in DOMAIN breakpoints => Len(breakpoints[addr].targetGoRoutineIDs) < MaxTargets

NoTracingPoint == [isNil |-> TRUE, function |-> functions[0], goRoutinesInside |-> <<>>]

\* the tracee is launched and stopped: every thread is in the root function
Init ==
    /\ mem = text
    /\ regs = [t \in Threads |-> [Rip |-> 1, Rsp |-> stackHi(t) - 16]]
    /\ pending = {}
    /\ attached = TRUE
    /\ binaryOpen = TRUE
    /\ breakpoints = EmptyMap
    /\ trace = <<>>
    /\ err = "nil"
    /\ call = Called("LaunchProcess", 0, 0, 0)
    /\ statusStore = EmptyMap
    /\ tracingPoint = NoTracingPoint
    /\ depth = 0
    /\ hitOnce = FALSE
    /\ interrupted = FALSE
    /\ output = <<>>
    /\ loop = "init"
    /\ queue = <<>>

CallSetBreakpoint ==
    \E addr \in Addrs :
        /\ attached
        /\ Commit(SetBreakpoint(Proc(0), addr))
        /\ call' = Called("SetBreakpoint", 0, addr, 0)

CallSetConditionalBreakpoint ==
    \E addr \in Addrs, goRoutineID \in RoutineIDs :
        /\ attached
        /\ CanAddTarget(addr)
        /\ Commit(SetConditionalBreakpoint(Proc(0), addr, goRoutineID))
        /\ call' = Called("SetConditionalBreakpoint", 0, addr, goRoutineID)

CallClearBreakpoint ==
    \E addr \in Addrs :
        /\ attached
        /\ Commit(ClearBreakpoint(Proc(0), addr))
        /\ call' = Called("ClearBreakpoint", 0, addr, 0)

CallClearConditionalBreakpoint ==
    \E addr \in Addrs, goRoutineID \in RoutineIDs :
        /\ attached
        /\ Commit(ClearConditionalBreakpoint(Proc(0), addr, goRoutineID))
        /\ call' = Called("ClearConditionalBreakpoint", 0, addr, goRoutineID)

\* SingleStep of a thread, while the threads of unreported sit on a trap
CallSingleStep ==
    \E threadID \in Threads, addr \in Addrs , unreported \in SUBSET Threads :
        /\ attached
        /\ threadID \notin unreported
        /\ Commit(SingleStep([Proc(0) EXCEPT !.pending = unreported], threadID, addr))
        /\ call' = Called("SingleStep", threadID, addr, 0)

\* CurrentGoRoutineInfo of a thread, while the threads of unreported sit on a trap
CallCurrentGoRoutineInfo ==
    \E threadID \in Threads, unreported \in SUBSET Threads :
        /\ attached
        /\ threadID \notin unreported
        /\ Commit(CurrentGoRoutineInfo([Proc(0) EXCEPT !.pending = unreported], threadID))
        /\ call' = Called("CurrentGoRoutineInfo", threadID, 0, 0)

CallDetach ==
    \E order \in Orders(DOMAIN breakpoints) :
        /\ attached
        /\ Commit(Detach(Proc(0), order))
        /\ call' = Called("Detach", 0, 0, 0)

NextProcess ==
    \/ CallSetBreakpoint
    \/ CallSetConditionalBreakpoint
    \/ CallClearBreakpoint
    \/ CallClearConditionalBreakpoint
    \/ CallSingleStep
    \/ CallCurrentGoRoutineInfo
    \/ CallDetach

SpecProcess == Init /\ [][NextProcess]_vars

(***************************************************************************)
(* Spec: a Controller traces the tracee.  The client sets the tracing      *)
(* point and the depth and calls MainLoop; the tracee runs while MainLoop  *)
(* waits in ContinueAndWait; Interrupt may be called at any time.  Every   *)
(* transport call succeeds.                                                *)
(***************************************************************************)
Ctl(failAt) ==
    [mem |-> mem, regs |-> regs, pending |-> pending, attached |-> attached,
     binaryOpen |-> binaryOpen, breakpoints |-> breakpoints,
     trace |-> <<>>, failAt |-> failAt, exitAt |-> 0, exitEvent |-> TrappedEvent,
     unresolved |-> {},
     ret |-> 0, err |-> "nil",
     statusStore |-> statusStore, tracingPoint |-> tracingPoint, depth |-> depth,
     hitOnce |-> hitOnce, interrupted |-> interrupted, output |-> <<>>]

CurCtl == Ctl(0)

CommitController(c) ==
    /\ CommitProcess(c)
    /\ statusStore' = c.statusStore
    /\ tracingPoint' = c.tracingPoint
    /\ depth' = c.depth
    /\ hitOnce' = c.hitOnce
    /\ interrupted' = c.interrupted
    /\ output' = c.output

FunctionNames == {functions[f].Name : f \in FuncIDs} \cup {"main.nosuch"}

CallSetTracingPoint ==
    \E functionName \in FunctionNames :
        /\ loop = "init"
        /\ CommitController(SetTracingPoint(Ctl(0), functionName))
        /\ call' = Called("SetTracingPoint", 0, 0, 0)
        /\ UNCHANGED <<loop, queue>>

\* the depth is any int: the client may pass a negative one
CallSetDepth ==
    \E d \in (-1)..MaxTraceDepth :
        /\ loop = "init"
        /\ CommitController(SetDepth(Ctl(0), d))
        /\ call' = Called("SetDepth", 0, 0, 0)
        /\ UNCHANGED <<loop, queue>>

\* Interrupt is called by another go routine, at any time: nothing but the flag changes
CallInterrupt ==
    /\ loop # "done"
    /\ ~interrupted
    /\ interrupted' = Interrupt(Ctl(0)).interrupted
    /\ UNCHANGED <<pvars, statusStore, tracingPoint, depth, hitOnce, output, loop, queue>>

\* MainLoop is called: the tracee is resumed
MainLoop ==
    /\ loop = "init"
    /\ LET c == ContinueAndWait(Ctl(0))
       IN  /\ CommitController(c)
           /\ loop' = IF c.err = "nil" THEN "waiting" ELSE "done"
    /\ call' = Called("MainLoop", 0, 0, 0)
    /\ UNCHANGED queue

\* ---- the tracee, while MainLoop waits in ContinueAndWait ----

Running(t) == loop = "waiting" /\ t \notin pending

\* thread 1 nests its calls to MaxDepth; the other threads call from their root only
DepthLimit(t) == IF t = 1 THEN MaxDepth ELSE 1

\* the frames thread t has above its root, and the function it is in
FrameDepth(t) == (stackHi(t) - regs[t].Rsp) \div 24
CurrentFunc(t) == regs[t].Rip \div 4

\* Thread t gets to pc with stack pointer rsp.  It executes the instruction there;
\* when that is the trap instruction the thread stops, with rip after it.
Arrive(t, pc, rsp, m) ==
    /\ mem' = m
    /\ regs' = [regs EXCEPT ![t] = [Rip |-> pc + 1, Rsp |-> rsp]]
    /\ pending' = IF m[pc] = breakpointInsts THEN pending \cup {t} ELSE pending
    /\ trace' = <<>>
    /\ output' = <<>>
    /\ call' = Called("tracee", t, pc, t)
    /\ UNCHANGED <<attached, binaryOpen, breakpoints, err, statusStore, tracingPoint,
                   depth, hitOnce, interrupted, loop, queue>>

\* thread t calls function f: the return address is pushed
TraceeCall ==
    \E t \in Threads, f \in FuncIDs \ {0} :
        /\ Running(t)
        /\ FrameDepth(t) < DepthLimit(t)
        /\ CurrentFunc(t) \in FuncIDs
        /\ LET slot == stackHi(t) - 24 * (FrameDepth(t) + 1)
           IN  Arrive(t, functions[f].Value, slot,
                      [mem EXCEPT ![slot] = 4 * CurrentFunc(t) + 2])

\* thread t returns from the function it is in: the return address is popped
TraceeReturn ==
    \E t \in Threads :
        /\ Running(t)
        /\ FrameDepth(t) >= 1
        /\ LET slot == stackHi(t) - 24 * FrameDepth(t)
           IN  /\ mem[slot] \in CodeAddrs
               /\ Arrive(t, mem[slot], slot + 8, mem)

\* thread t, past the entry of its function, finds its stack too small: the stack
\* grows and the function starts again, with the same size of stack used
TraceeMoreStack ==
    \E t \in Threads :
        /\ Running(t)
        /\ FrameDepth(t) >= 1
        /\ stackHi(t) - regs[t].Rsp = 24 * FrameDepth(t)
        /\ CurrentFunc(t) \in FuncIDs
        /\ regs[t].Rip = functions[CurrentFunc(t)].Value + 1
        /\ Arrive(t, functions[CurrentFunc(t)].Value, regs[t].Rsp, mem)

\* ContinueAndWait returns: the threads that sit on a trap are reported, in any order
ContinueAndWaitTrapped ==
    \E order \in Orders(pending) :
            /\ loop = "waiting"
            /\ pending # {}
            /\ loop' = "handling"
            /\ queue' = order
            /\ pending' = {}
            /\ trace' = <<>>
            /\ output' = <<>>
            /\ call' = Called("EventTypeTrapped", 0, 0, 0)
            /\ UNCHANGED <<mem, regs, attached, binaryOpen, breakpoints, err, statusStore,
                           tracingPoint, depth, hitOnce, interrupted>>

\* ContinueAndWait returns: the tracee has ended, the binary is closed and MainLoop
\* returns
ContinueAndWaitExited ==
    \E event \in ExitEvents :
        /\ loop = "waiting"
        /\ IsExitEvent(event.Type)
        /\ CommitController(mainLoopEvent(close(Ctl(0)), event))
        /\ loop' = "done"
        /\ call' = Called(event.Type, 0, event.Data, 0)
        /\ UNCHANGED queue

\* ---- handleTrapEvent ----

\* one turn of the loop of handleTrapEvent over trappedThreadIDs
HandleTrapEventOfThread ==
    /\ loop = "handling"
    /\ queue # <<>>
    /\ LET threadID == Head(queue)
           c == handleTrapEventOfThread(Ctl(0), threadID)
       IN  /\ CommitController(c)
           /\ loop' = IF c.err = "nil" THEN "handling" ELSE "done"
           /\ queue' = IF c.err = "nil" THEN Tail(queue) ELSE <<>>
           /\ call' = Called("handleTrapEventOfThread", threadID,
                             regs[threadID].Rip - 1, threadID)

\* one turn of the loop of handleTrapEvent, on a binary whose function lookup
\* misses the functions of unresolved: none, or one function
HandleTrapEventOfThread_LookupMiss ==
    \E unresolved \in {{}} \cup {{f} : f \in FuncIDs} :
        /\ loop = "handling"
        /\ queue # <<>>
        /\ LET threadID == Head(queue)
               c == handleTrapEventOfThread([Ctl(0) EXCEPT !.unresolved = unresolved],
                                            threadID)
           IN  /\ CommitController(c)
               /\ loop' = IF c.err = "nil" THEN "handling" ELSE "done"
               /\ queue' = IF c.err = "nil" THEN Tail(queue) ELSE <<>>
               /\ call' = Called("handleTrapEventOfThread", threadID,
                                 regs[threadID].Rip - 1, threadID)

\* mutant: the flag is not looked at, the tracee is resumed
HandleTrapEventContinue_Always ==
    /\ loop = "handling"
    /\ queue = <<>>
    /\ LET c == ContinueAndWait(Ctl(0))
       IN  /\ CommitController(c)
           /\ loop' = IF c.err = "nil" THEN "waiting" ELSE "done"
    /\ call' = Called("ContinueAndWait", 0, 0, 0)
    /\ UNCHANGED queue

\* mutant: the flag is looked at before the loop has handled every thread
HandleTrapEventInterrupted_AtOnce ==
    /\ loop = "handling"
    /\ interrupted
    /\ \E order \in Orders(DOMAIN breakpoints) :
        /\ LET c == Detach(Ctl(0), order)
           IN  CommitController(IF c.err = "nil" THEN [c EXCEPT !.err = "ErrInterrupted"] ELSE c)
        /\ loop' = "done"
        /\ queue' = <<>>
        /\ call' = Called("Detach", 0, 0, 0)

\* after the loop, interrupted: the process is detached and MainLoop returns
HandleTrapEventInterrupted ==
    /\ loop = "handling"
    /\ queue = <<>>
    /\ interrupted
    /\ \E order \in Orders(DOMAIN breakpoints) :
        /\ LET c == Detach(Ctl(0), order)
           IN  CommitController(IF c.err = "nil" THEN [c EXCEPT !.err = "ErrInterrupted"] ELSE c)
        /\ loop' = "done"
        /\ call' = Called("Detach", 0, 0, 0)
        /\ UNCHANGED queue

\* after the loop, not interrupted: the tracee is resumed
HandleTrapEventContinue ==
    /\ loop = "handling"
    /\ queue = <<>>
    /\ ~interrupted
    /\ LET c == ContinueAndWait(Ctl(0))
       IN  /\ CommitController(c)
           /\ loop' = IF c.err = "nil" THEN "waiting" ELSE "done"
    /\ call' = Called("ContinueAndWait", 0, 0, 0)
    /\ UNCHANGED queue

Next ==
    \/ CallSetTracingPoint
    \/ CallSetDepth
    \/ CallInterrupt
    \/ MainLoop
    \/ TraceeCall
    \/ TraceeReturn
    \/ TraceeMoreStack
    \/ ContinueAndWaitTrapped
    \/ ContinueAndWaitExited
    \/ HandleTrapEventOfThread
    \/ HandleTrapEventInterrupted
    \/ HandleTrapEventContinue

Spec == Init /\ [][Next]_vars

\* The steps of handleTrapEvent, as far as loop and queue show them: a turn of its
\* loop over trappedThreadIDs, and what follows the loop (Detach or ContinueAndWait).
(***************************************************************************)
(* SpecLookupMiss: Spec, on binaries whose function lookup may miss a      *)
(* function of the tracee.                                                 *)
(***************************************************************************)
NextLookupMiss ==
    \/ CallSetTracingPoint
    \/ CallSetDepth
    \/ CallInterrupt
    \/ MainLoop
    \/ TraceeCall
    \/ TraceeReturn
    \/ TraceeMoreStack
    \/ ContinueAndWaitTrapped
    \/ ContinueAndWaitExited
    \/ HandleTrapEventOfThread_LookupMiss
    \/ HandleTrapEventInterrupted
    \/ HandleTrapEventContinue

SpecLookupMiss == Init /\ [][NextLookupMiss]_vars

handleTrapEventTurn ==
    /\ loop = "handling"
    /\ queue # <<>>
    /\ queue' = Tail(queue)
    /\ loop' \in {"handling", "done"}

handleTrapEventEnd ==
    /\ loop = "handling"
    /\ queue = <<>>
    /\ queue' = queue
    /\ loop' \in {"waiting", "done"}

\* MainLoop runs: once handleTrapEvent is called it handles the batch and then either
\* detaches or resumes the tracee.  Nothing makes the tracee trap or end.
SpecLive ==
    /\ Init
    /\ [][Next]_vars
    /\ WF_<<loop, queue>>(handleTrapEventTurn)
    /\ WF_<<loop, queue>>(handleTrapEventEnd)

(***************************************************************************)
(* Properties of the breakpoints of a Process (SpecProcess).               *)
(***************************************************************************)
Range(s) == {s[i] : i \in 1..Len(s)}

\* how many times x occurs in the sequence s
Count(s, x) == Cardinality({i \in 1..Len(s) : s[i] = x})

Targets(p, addr) == p.breakpoints[addr].targetGoRoutineIDs

\* C1: after any sequence of successful SetBreakpoint, SetConditionalBreakpoint,
\* ClearBreakpoint, ClearConditionalBreakpoint and SingleStep calls, every address
\* with a breakpoint record holds the trap byte 0xCC, its record holds the byte the
\* text had there, and every address without a record holds that original byte.
C1_TrapByteIffRecord ==
    \A a \in DOMAIN mem :
        IF a \in DOMAIN breakpoints
        THEN mem[a] = breakpointInsts /\ breakpoints[a].orgInsts = text[a]
        ELSE mem[a] = text[a]

\* a record has just been removed by ClearConditionalBreakpoint while the other
\* address keeps its breakpoint
C1_Witness ==
    /\ call.op = "ClearConditionalBreakpoint"
    /\ Len(trace) = 1
    /\ call.addr \notin DOMAIN breakpoints
    /\ \E a \in Addrs : a \in DOMAIN breakpoints

\* C2: HitBreakpoint(addr, routine) is true exactly when a record exists at addr and
\* its target list is empty or contains routine.
C2_HitBreakpointExactly ==
    \A a \in Addrs, r \in RoutineIDs :
        HitBreakpoint(Cur, a, r) <=>
            /\ a \in DOMAIN breakpoints
            /\ \/ breakpoints[a].targetGoRoutineIDs = <<>>
               \/ r \in Range(breakpoints[a].targetGoRoutineIDs)

\* one address holds an unconditional breakpoint and the other a conditional one
\* that some go routine does not hit
C2_Witness ==
    \E a, b \in Addrs :
        /\ a \in DOMAIN breakpoints /\ breakpoints[a].targetGoRoutineIDs = <<>>
        /\ b \in DOMAIN breakpoints /\ breakpoints[b].targetGoRoutineIDs # <<>>
        /\ \E r \in RoutineIDs : r # 0 /\ ~HitBreakpoint(Cur, b, r)
        /\ \A r \in RoutineIDs : HitBreakpoint(Cur, a, r)

\* C3: from any state where A has no breakpoint, SetBreakpoint(A) once, twice or
\* three times and then ClearBreakpoint(A) once leaves the byte at A as it was and
\* no record at A; the byte recorded as original is never the trap byte written.
C3_SetThenClearRestores ==
    attached =>
        \A a \in Addrs :
            a \notin DOMAIN breakpoints =>
                LET s1 == SetBreakpoint(Cur, a)
                    s2 == SetBreakpoint(s1, a)
                    s3 == SetBreakpoint(s2, a)
                IN  \A s \in {s1, s2, s3} :
                        LET c == ClearBreakpoint(s, a)
                        IN  /\ s.err = "nil" /\ c.err = "nil"
                            /\ s.mem[a] = breakpointInsts
                            /\ s.breakpoints[a].orgInsts = mem[a]
                            /\ c.mem[a] = mem[a]
                            /\ a \notin DOMAIN c.breakpoints

\* ClearBreakpoint has just restored the byte of an address that had a breakpoint
C3_Witness ==
    /\ call.op = "ClearBreakpoint"
    /\ err = "nil"
    /\ Len(trace) = 1 /\ trace[1].op = "WriteMemory" /\ trace[1].val = text[call.addr]
    /\ call.addr \notin DOMAIN breakpoints
    /\ mem[call.addr] = text[call.addr]

\* C4: SetBreakpoint(A) on an address that has an unconditional breakpoint makes no
\* transport call and leaves the breakpoints unchanged; ClearBreakpoint(A) on an
\* address without a breakpoint returns no error, makes no transport call and leaves
\* the breakpoints unchanged.
C4_SetIdempotentClearNoOp ==
    attached =>
        \A a \in Addrs :
            /\ (a \in DOMAIN breakpoints /\ NoTarget(breakpoints[a])) =>
                   LET s == SetBreakpoint(Cur, a)
                   IN  /\ s.err = "nil"
                       /\ s.trace = <<>>
                       /\ s.mem = mem
                       /\ s.breakpoints = breakpoints
            /\ a \notin DOMAIN breakpoints =>
                   LET c == ClearBreakpoint(Cur, a)
                   IN  /\ c.err = "nil"
                       /\ c.trace = <<>>
                       /\ c.mem = mem
                       /\ c.breakpoints = breakpoints

\* SetBreakpoint has just been called on an address that had an unconditional
\* breakpoint, while the other address has none
C4_Witness ==
    /\ call.op = "SetBreakpoint"
    /\ trace = <<>>
    /\ call.addr \in DOMAIN breakpoints
    /\ NoTarget(breakpoints[call.addr])
    /\ \E a \in Addrs : a \notin DOMAIN breakpoints

\* C5: ClearConditionalBreakpoint(A, r1) on a breakpoint with interested go routines
\* removes one occurrence of r1 and nothing else; while some go routine is still
\* interested the record stays, the trap byte stays, no transport call is made and
\* every go routine still interested still hits; the breakpoint is physically
\* cleared (original byte written back, record removed) exactly when r1 was the
\* last interested go routine.
C5_ClearedWithLastRoutine ==
    attached =>
        \A a \in DOMAIN breakpoints, r1 \in RoutineIDs :
            LET ids == breakpoints[a].targetGoRoutineIDs
                q == ClearConditionalBreakpoint(Cur, a, r1)
            IN  ids # <<>> =>
                    /\ q.err = "nil"
                    /\ ids = <<r1>> =>
                           /\ a \notin DOMAIN q.breakpoints
                           /\ q.mem[a] = breakpoints[a].orgInsts
                    /\ ids # <<r1>> =>
                           /\ a \in DOMAIN q.breakpoints
                           /\ q.mem[a] = breakpointInsts
                           /\ q.trace = <<>>
                           /\ \A r \in RoutineIDs :
                                  Count(Targets(q, a), r) =
                                      Count(ids, r) - (IF r = r1 /\ r1 \in Range(ids) THEN 1 ELSE 0)
                           /\ \A r2 \in Range(ids) \ {r1} : HitBreakpoint(q, a, r2)

\* ClearConditionalBreakpoint(A, r1) has left a breakpoint that another go routine
\* is interested in and r1 is not
C5_Witness ==
    /\ call.op = "ClearConditionalBreakpoint"
    /\ call.gid # 0
    /\ call.addr \in DOMAIN breakpoints
    /\ breakpoints[call.addr].targetGoRoutineIDs # <<>>
    /\ call.gid \notin Range(breakpoints[call.addr].targetGoRoutineIDs)
    /\ mem[call.addr] = breakpointInsts
    /\ trace = <<>>

\* C6: SetConditionalBreakpoint(A, r) on an address that holds an unconditional
\* breakpoint leaves it unconditional: every go routine still hits it.
C6_UnconditionalStaysUnconditional ==
    attached =>
        \A a \in DOMAIN breakpoints :
            NoTarget(breakpoints[a]) =>
                \A r, r2 \in RoutineIDs :
                    HitBreakpoint(SetConditionalBreakpoint(Cur, a, r), a, r2)

\* C7: ClearConditionalBreakpoint(A, r) never removes a breakpoint that was created
\* unconditionally (a record with no target can only be one that SetBreakpoint
\* created): the record and the trap byte are still there afterwards.
C7_ClearConditionalKeepsUnconditional ==
    attached =>
        \A a \in DOMAIN breakpoints :
            NoTarget(breakpoints[a]) =>
                \A r \in RoutineIDs :
                    LET q == ClearConditionalBreakpoint(Cur, a, r)
                    IN  /\ a \in DOMAIN q.breakpoints
                        /\ q.mem[a] = breakpointInsts

\* C8: SetConditionalBreakpoint(A, r) immediately followed by
\* ClearConditionalBreakpoint(A, r) leaves the records, each record's targets as a
\* multiset, and the memory as they were.
C8_SetClearConditionalRoundTrip ==
    attached =>
        \A a \in Addrs, r \in RoutineIDs :
            LET q == ClearConditionalBreakpoint(SetConditionalBreakpoint(Cur, a, r), a, r)
            IN  /\ q.err = "nil"
                /\ DOMAIN q.breakpoints = DOMAIN breakpoints
                /\ \A b \in DOMAIN breakpoints :
                       /\ b \in DOMAIN q.breakpoints
                       /\ q.breakpoints[b].orgInsts = breakpoints[b].orgInsts
                       /\ \A x \in RoutineIDs :
                              Count(Targets(q, b), x) = Count(Targets(Cur, b), x)
                /\ q.mem = mem

\* the calls of Detach on a process with n breakpoints: n writes and the detach
DetachFailPoints == 0..(Cardinality(DOMAIN breakpoints) + 1)

\* C9: after a successful Detach no breakpoint record remains, every address that had
\* a breakpoint holds its original byte, and each of those bytes was written back
\* before the transport was detached (the detach is the last transport call).
C9_DetachClearsThenDetaches ==
    attached =>
        \A order \in Orders(DOMAIN breakpoints), f \in DetachFailPoints :
            LET q == Detach(Proc(f), order)
                n == Len(q.trace)
            IN  q.err = "nil" =>
                    /\ q.breakpoints = EmptyMap
                    /\ \A a \in Addrs : ~HasBreakpoint(q, a)
                    /\ ~q.attached
                    /\ n = Cardinality(DOMAIN breakpoints) + 1
                    /\ q.trace[n].op = "DetachProcess"
                    /\ \A a \in DOMAIN breakpoints :
                           /\ q.mem[a] = breakpoints[a].orgInsts
                           /\ \E i \in 1..(n - 1) :
                                  /\ q.trace[i].op = "WriteMemory"
                                  /\ q.trace[i].ok
                                  /\ q.trace[i].addr = a
                                  /\ q.trace[i].val = breakpoints[a].orgInsts

\* Detach has just restored two breakpoints and detached
C9_Witness ==
    /\ call.op = "Detach"
    /\ err = "nil"
    /\ ~attached
    /\ Len(trace) = 3
    /\ breakpoints = EmptyMap
    /\ mem = text

(***************************************************************************)
(* Properties of the Controller (Spec).                                    *)
(***************************************************************************)
\* C10: a trap of a thread is classified from pc = current pc - 1, the go routine's
\* used stack size and the size tracked for it (the usedStackSize of the last of its
\* callingFunctions, 0 when it has none): no breakpoint hit at pc for the go routine
\* -> unrelated; else used size greater than tracked -> function call, smaller ->
\* function return, equal -> unrelated.  An unrelated trap is only single-stepped
\* over: statusStore, the tracing point, hitOnce, the breakpoints and the output are
\* left as they were.  A call adds a calling function with the used size; a return
\* removes the last one.
C10_TrapClassification ==
    (loop = "handling" /\ queue # <<>>) =>
        LET threadID == Head(queue)
            c1 == CurrentGoRoutineInfo(CurCtl, threadID)
            info == c1.ret
            pc == regs[threadID].Rip - 1
            used == stackHi(info.ID) - regs[threadID].Rsp
            cfs == IF info.ID \in DOMAIN statusStore
                   THEN statusStore[info.ID].callingFunctions ELSE <<>>
            tracked == IF cfs = <<>> THEN 0 ELSE cfs[Len(cfs)].usedStackSize
            hit == /\ pc \in DOMAIN breakpoints
                   /\ \/ breakpoints[pc].targetGoRoutineIDs = <<>>
                      \/ info.ID \in Range(breakpoints[pc].targetGoRoutineIDs)
            class == IF ~hit THEN "unrelated"
                     ELSE IF used > tracked THEN "call"
                     ELSE IF used < tracked THEN "return"
                     ELSE "unrelated"
            r == handleTrapEventOfThread(CurCtl, threadID)
            after == statusOf(r, info.ID).callingFunctions
        IN  /\ c1.err = "nil"
            /\ info.CurrentPC - 1 = pc
            /\ info.UsedStackSize = used
            /\ class = "unrelated" =>
                   /\ r = SingleStep(c1, threadID, pc)
                   /\ r.err = "nil"
                   /\ r.statusStore = statusStore
                   /\ r.tracingPoint = tracingPoint
                   /\ r.hitOnce = hitOnce
                   /\ r.breakpoints = breakpoints
                   /\ r.mem = mem
                   /\ r.output = <<>>
                   /\ r.regs[threadID] = [Rip |-> pc + 1, Rsp |-> regs[threadID].Rsp]
            /\ class = "call" =>
                   /\ r = handleTrapAtFunctionCall(c1, threadID, info)
                   /\ r.err = "nil" =>
                          /\ Len(after) = Len(cfs) + 1
                          /\ after[Len(after)].usedStackSize = used
            /\ class = "return" =>
                   /\ r = handleTrapAtFunctionReturn(c1, threadID, info)
                   /\ r.err = "nil" => after = SubSeq(cfs, 1, Len(cfs) - 1)

\* a trap at a breakpoint the go routine hits, with two calling functions tracked
\* and the used stack size equal to the tracked one, has just been single-stepped
\* over as an unrelated trap (the stack frame was not read)
C10_Witness ==
    /\ loop = "handling"
    /\ call.op = "handleTrapEventOfThread"
    /\ err = "nil"
    /\ HitBreakpoint(CurCtl, call.addr, call.gid)
    /\ call.gid \in DOMAIN statusStore
    /\ Len(statusStore[call.gid].callingFunctions) = 2
    /\ usedStackSize(statusStore[call.gid]) = stackHi(call.gid) - regs[call.tid].Rsp
    /\ regs[call.tid].Rip = call.addr + 1
    /\ \A i \in 1..Len(trace) : trace[i].op # "ReadMemory"
    /\ \E i \in 1..Len(trace) : trace[i].op = "StepAndWait" /\ trace[i].ok

\* the functions that have a breakpoint at their entry, and those that may have one
EntryBreakpoints == {f \in FuncIDs : functions[f].Value \in DOMAIN breakpoints}

Eligible == {f \in FuncIDs : canSetBreakpoint(functions[f])}

C11_Armed ==
    attached =>
        /\ tracingPoint.isNil => breakpoints = EmptyMap
        /\ (~tracingPoint.isNil /\ ~hitOnce) =>
               DOMAIN breakpoints = {tracingPoint.function.Value}
        /\ hitOnce => EntryBreakpoints = Eligible
        /\ EntryBreakpoints \subseteq Eligible

C11_Arming ==
    /\ hitOnce => hitOnce'
    /\ (~hitOnce /\ hitOnce') =>
           /\ call'.op = "handleTrapEventOfThread"
           /\ call'.addr = tracingPoint.function.Value
           /\ EntryBreakpoints = {call'.addr \div 4}
           /\ EntryBreakpoints' = Eligible
    /\ (attached' /\ EntryBreakpoints' # EntryBreakpoints) =>
           \/ ~hitOnce /\ hitOnce'
           \/ call'.op = "SetTracingPoint" /\ tracingPoint.isNil /\ ~tracingPoint'.isNil

\* C11: from SetTracingPoint until the first call trap at the entry of the tracing
\* point, that entry is the only address with a breakpoint; at that first trap, and
\* at no other step, the entry of every other function canSetBreakpoint allows gets a
\* breakpoint; the entry of a function it does not allow never has one.
C11_ArmedOnFirstHitOnly == []C11_Armed /\ [][C11_Arming]_vars

\* the first trap at the tracing point has just been handled: the trap instruction
\* was written at the entry of another function
C11_Witness ==
    /\ loop = "handling"
    /\ call.op = "handleTrapEventOfThread"
    /\ hitOnce
    /\ call.addr = tracingPoint.function.Value
    /\ \E i \in 1..Len(trace), f \in Eligible :
           /\ trace[i].op = "WriteMemory" /\ trace[i].ok
           /\ trace[i].val = breakpointInsts
           /\ trace[i].addr = functions[f].Value
           /\ trace[i].addr # tracingPoint.function.Value

\* the transport calls of SetTracingPoint: a read and a write
SetTracingPointFailPoints == 0..2

\* C12: once the tracing point is set, SetTracingPoint returns an error and leaves
\* the tracing point, the breakpoints and the memory as they are; a call that fails
\* while no tracing point is set (function not found, function not allowed a
\* breakpoint, transport error) sets no breakpoint and leaves the tracing point
\* unset; a call that succeeds sets the tracing point and its breakpoint.
C12_SetTracingPointOnce ==
    attached =>
        \A functionName \in FunctionNames, failAt \in SetTracingPointFailPoints :
            LET r == SetTracingPoint(Ctl(failAt), functionName)
                found == \E f \in FuncIDs : functions[f].Name = functionName
                allowed == \E f \in Eligible : functions[f].Name = functionName
            IN  /\ ~tracingPoint.isNil =>
                       /\ r.err # "nil"
                       /\ r.trace = <<>>
                       /\ r.tracingPoint = tracingPoint
                       /\ r.breakpoints = breakpoints
                       /\ r.mem = mem
                /\ tracingPoint.isNil =>
                       /\ (~found \/ ~allowed) => (r.err # "nil" /\ r.trace = <<>>)
                       /\ r.err # "nil" =>
                              /\ r.tracingPoint.isNil
                              /\ r.breakpoints = breakpoints
                              /\ r.mem = mem
                       /\ r.err = "nil" =>
                              /\ ~r.tracingPoint.isNil
                              /\ r.tracingPoint.function.Name = functionName
                              /\ DOMAIN r.breakpoints = {r.tracingPoint.function.Value}
                              /\ r.mem[r.tracingPoint.function.Value] = breakpointInsts

\* SetTracingPoint has just been called with the tracing point set, and has failed
C12_Witness ==
    /\ call.op = "SetTracingPoint"
    /\ err = "tracing point is set already"
    /\ ~tracingPoint.isNil
    /\ trace = <<>>
    /\ DOMAIN breakpoints = {tracingPoint.function.Value}

\* the stack depth recorded when go routine id entered the tracing point
EntryDepth(tp, id) ==
    LET i == CHOOSE k \in 1..Len(tp.goRoutinesInside) : tp.goRoutinesInside[k].id = id
    IN  tp.goRoutinesInside[i].stackDepth

CallingFunctions(id) == statusOf(CurCtl, id).callingFunctions

AnchorFrames(id) ==
    {i \in 1..Len(CallingFunctions(id)) :
        CallingFunctions(id)[i].Function.Value = tracingPoint.function.Value}

\* go routine id is inside the tracing point exactly while a frame of the tracing
\* point is among its calling functions, and the depth recorded is that of the
\* outermost such frame
InsideWhileAnchorFrame(id) ==
    /\ tracingPoint_Inside(tracingPoint, id) <=> AnchorFrames(id) # {}
    /\ tracingPoint_Inside(tracingPoint, id) =>
           \A i \in AnchorFrames(id) : EntryDepth(tracingPoint, id) <= i

\* C14: a go routine becomes inside the tracing point at its first call trap at the
\* entry of the tracing point and stays inside, through deeper calls and returns of
\* the tracing point, until the return trap of the frame at the recorded depth has
\* been handled; then it is no longer inside.  For every depth limit.
C14_InsideUntilAnchorReturns ==
    ~tracingPoint.isNil => \A id \in Threads : InsideWhileAnchorFrame(id)

\* the same, for the depth limits that are not negative
C14_InsideUntilAnchorReturns_DepthNotNegative ==
    (~tracingPoint.isNil /\ depth >= 0) => \A id \in Threads : InsideWhileAnchorFrame(id)

\* the stack depths Enter and Exit are called with
StackDepths == 1..(MaxDepth + 1)

\* C15: on the tracing point, Enter(r, d) of a go routine that is not inside puts it
\* inside with depth d; Exit(r, d) then removes it again and Exit(r, d2) with d2 # d
\* leaves it inside; Enter of a go routine that is inside does nothing, so the list
\* holds at most one entry for a go routine and the depth it records is that of the
\* outermost entry.
C15_EnterExit ==
    ~tracingPoint.isNil =>
        /\ \A i, j \in 1..Len(tracingPoint.goRoutinesInside) :
               tracingPoint.goRoutinesInside[i].id = tracingPoint.goRoutinesInside[j].id => i = j
        /\ \A r \in RoutineIDs, d \in StackDepths, d2 \in StackDepths :
               LET tp == tracingPoint
                   e == tracingPoint_Enter(tp, r, d)
               IN  /\ tracingPoint_Inside(e, r)
                   /\ tracingPoint_Inside(tp, r) =>
                          /\ e = tp
                          /\ d2 # EntryDepth(tp, r) => tracingPoint_Exit(tp, r, d2) = tp
                          /\ ~tracingPoint_Inside(tracingPoint_Exit(tp, r, EntryDepth(tp, r)), r)
                   /\ ~tracingPoint_Inside(tp, r) =>
                          /\ EntryDepth(e, r) = d
                          /\ tracingPoint_Depth(e, r, d2) = d2 - d
                          /\ tracingPoint_Exit(e, r, d) = tp
                          /\ d2 # d => tracingPoint_Exit(e, r, d2) = e
                          /\ tracingPoint_Enter(e, r, d2) = e
                          /\ tracingPoint_Exit(tracingPoint_Enter(e, r, d2), r, d2) =
                                 (IF d2 = d THEN tp ELSE e)

\* a go routine inside the tracing point has just called the tracing point again:
\* two frames of the tracing point, one entry with the depth of the outer one, while
\* another go routine is inside too
C15_Witness ==
    /\ call.op = "handleTrapEventOfThread"
    /\ ~tracingPoint.isNil
    /\ call.addr = tracingPoint.function.Value
    /\ AnchorFrames(call.gid) = {1, 2}
    /\ tracingPoint_Inside(tracingPoint, call.gid)
    /\ EntryDepth(tracingPoint, call.gid) = 1
    /\ Len(tracingPoint.goRoutinesInside) = 2

\* C16: for every go routine, the usedStackSize recorded in its callingFunctions is
\* strictly increasing from the oldest entry to the newest.
C16_UsedStackSizesIncrease ==
    \A id \in DOMAIN statusStore :
        LET cfs == statusStore[id].callingFunctions
        IN  \A i \in 1..(Len(cfs) - 1) : cfs[i].usedStackSize < cfs[i + 1].usedStackSize

\* a call from a called function has just been handled: two calling functions, the
\* newer one with the greater used stack size
C16_Witness ==
    /\ call.op = "handleTrapEventOfThread"
    /\ call.gid \in DOMAIN statusStore
    /\ Len(statusStore[call.gid].callingFunctions) = 2
    /\ statusStore[call.gid].callingFunctions[2].Function.Value = call.addr
    /\ statusStore[call.gid].callingFunctions[2].usedStackSize =
           stackHi(call.gid) - regs[call.tid].Rsp
    /\ statusStore[call.gid].callingFunctions[1].usedStackSize > 0

\* MainLoop has returned
Returned == loop = "done"

Logs(op) == \E i \in 1..Len(trace') : trace'[i].op = op

C18_Step ==
    \* Interrupt sets the flag and nothing else
    /\ (~interrupted /\ interrupted') =>
           UNCHANGED <<pvars, statusStore, tracingPoint, depth, hitOnce, output, loop, queue>>
    \* a thread of the batch is handled completely, whatever the flag: the handler
    \* does what it does without the flag, the thread is stepped over its trap and
    \* the process stays attached
    /\ (loop = "handling" /\ queue # <<>> /\ queue' # queue) =>
           LET threadID == Head(queue)
               r == handleTrapEventOfThread([CurCtl EXCEPT !.interrupted = FALSE], threadID)
           IN  /\ loop' = "handling"
               /\ queue' = Tail(queue)
               /\ attached'
               /\ ~Logs("DetachProcess") /\ ~Logs("ContinueAndWait")
               /\ r.err = "nil"
               /\ <<mem', regs', breakpoints', statusStore', tracingPoint', hitOnce', output'>> =
                      <<r.mem, r.regs, r.breakpoints, r.statusStore, r.tracingPoint, r.hitOnce,
                        r.output>>
               /\ interrupted' = interrupted
               /\ regs'[threadID].Rip = regs[threadID].Rip
               /\ \E i \in 1..Len(trace') :
                      /\ trace'[i].op = "StepAndWait" /\ trace'[i].ok
                      /\ trace'[i].tid = threadID
                      /\ trace'[i].addr = regs[threadID].Rip - 1
    \* the process is detached only after the loop, with the flag set, and then
    \* MainLoop returns ErrInterrupted
    /\ (attached /\ ~attached') =>
           /\ loop = "handling" /\ queue = <<>> /\ interrupted
           /\ Returned' /\ err' = "ErrInterrupted"
    \* after the loop, with the flag set, the tracee is not resumed
    /\ (loop = "handling" /\ queue = <<>> /\ interrupted /\ loop' # loop) =>
           /\ Returned' /\ err' = "ErrInterrupted"
           /\ ~attached'
           /\ breakpoints' = EmptyMap
           /\ Logs("DetachProcess") /\ ~Logs("ContinueAndWait")
    \* after the loop, without the flag, the tracee is resumed
    /\ (loop = "handling" /\ queue = <<>> /\ ~interrupted /\ loop' # loop) =>
           /\ loop' = "waiting" /\ attached' /\ Logs("ContinueAndWait")

\* C18: the interrupt flag is acted on only between the batches of trapped threads:
\* whenever Interrupt is called, every thread of the batch being handled is still
\* handled completely (its single step included); only after the last one does the
\* controller detach and return ErrInterrupted, without resuming the tracee.
C18_InterruptBetweenBatches == [][C18_Step]_vars

\* the flag is set, one thread of a batch of two has been handled and printed, the
\* other is still to be handled, and the process is still attached
C18_Witness ==
    /\ interrupted
    /\ loop = "handling"
    /\ call.op = "handleTrapEventOfThread"
    /\ Len(queue) = 1
    /\ Head(queue) # call.tid
    /\ Len(output) = 1
    /\ attached
    /\ breakpoints # EmptyMap

(***************************************************************************)
(* Progress of MainLoop (SpecLive).                                        *)
(***************************************************************************)
ReturnedInterrupted == Returned /\ err = "ErrInterrupted"

OnTrap(t) == regs[t].Rip - 1 \in DOMAIN breakpoints

\* the instructions thread t has executed in the calls of tr
Steps(tr, t) == {i \in 1..Len(tr) : tr[i].op = "StepAndWait" /\ tr[i].tid = t /\ tr[i].ok}

\* thread t has been stepped over its trap at addr once: it has executed one
\* instruction, the original one at addr, and stands one past it
SteppedOnce(p, t, addr) ==
    /\ Cardinality(Steps(p.trace, t)) = 1
    /\ \A i \in Steps(p.trace, t) :
           /\ p.trace[i].addr = addr
           /\ p.trace[i].val = breakpoints[addr].orgInsts
           /\ p.trace[i].val # breakpointInsts
    /\ p.regs[t].Rip = addr + 1

\* C20: two threads sit on traps, the transport has reported one of them (t1) only.
\* When the step of t1 or the TLS read for t1 is answered with an
\* UnspecifiedThreadError naming the other (t2), the operation succeeds, t2 has been
\* stepped over its trap exactly once, t1 is stepped over its trap exactly once by
\* its SingleStep, no thread is left to report, and every breakpoint is armed as before.
C20_UnspecifiedThreadsAdvanceOnce ==
    attached =>
        \A t1, t2 \in Threads :
            (t1 # t2 /\ OnTrap(t1) /\ OnTrap(t2)) =>
                LET a == regs[t1].Rip - 1
                    b == regs[t2].Rip - 1
                    p == [Cur EXCEPT !.pending = {t2}]
                    r == SingleStep(p, t1, a)
                    g == CurrentGoRoutineInfo(p, t1)
                    s == SingleStep(g, t1, a)
                IN  /\ r.err = "nil"
                    /\ \E i \in 1..Len(r.trace) :
                           r.trace[i].op = "StepAndWait" /\ ~r.trace[i].ok
                    /\ SteppedOnce(r, t1, a)
                    /\ SteppedOnce(r, t2, b)
                    /\ r.pending = {}
                    /\ r.mem = mem
                    /\ r.breakpoints = breakpoints
                    /\ g.err = "nil"
                    /\ g.ret.ID = t1
                    /\ g.trace[1].op = "ReadTLS" /\ ~g.trace[1].ok
                    /\ Steps(g.trace, t1) = {}
                    /\ SteppedOnce(g, t2, b)
                    /\ g.pending = {}
                    /\ g.mem = mem
                    /\ s.err = "nil"
                    /\ SteppedOnce(s, t1, a)
                    /\ SteppedOnce(s, t2, b)
                    /\ s.pending = {}
                    /\ s.mem = mem
                    /\ s.breakpoints = breakpoints

\* SingleStep of a thread on a trap has been answered with an UnspecifiedThreadError
\* naming the other thread, on a trap too, and has stepped both
C20_Witness ==
    /\ call.op = "SingleStep"
    /\ err = "nil"
    /\ \E i \in 1..Len(trace) : trace[i].op = "StepAndWait" /\ ~trace[i].ok
    /\ \A t \in Threads :
           /\ OnTrap(t)
           /\ Cardinality(Steps(trace, t)) = 1
           /\ \A i \in Steps(trace, t) : trace[i].addr = regs[t].Rip - 1
    /\ regs[1].Rip # regs[2].Rip

(***************************************************************************)
(* The functions that may carry a breakpoint.                              *)
(***************************************************************************)
\* names of functions of Go binaries
SampleNames ==
    {"runtime.deferproc", "runtime.gopanic", "runtime.gorecover", "runtime.main",
     "runtime.GC", "runtime.", "runtime/debug.setGCPercent", "runtime/debug.FreeOSMemory",
     "runtimeutil.f", "_rt0_amd64_linux", "_rt.f", "type..eq.main.T", "type.F",
     "typeutil.f", "main.f", "main.Run", "main.runtime.f"}

FunctionSamples ==
    {[Name |-> n, Value |-> 0, exported |-> IsExported(n)] : n \in SampleNames}

\* the filter: the names denied a breakpoint
DeniedWithPrefix(function, runtimePrefix) ==
    \/ /\ HasPrefix(function.Name, runtimePrefix)
       /\ ~function.exported
       /\ function.Name \notin {"runtime.deferproc", "runtime.gopanic", "runtime.gorecover"}
    \/ HasPrefix(function.Name, "_rt0")
    \/ HasPrefix(function.Name, "type.")

\* C21: a function is denied a breakpoint exactly when its name starts with
\* "runtime." and it is not exported and not one of runtime.deferproc,
\* runtime.gopanic, runtime.gorecover, or its name starts with "_rt0" or with
\* "type."; every other function is eligible (a non-exported function of
\* runtime/debug, for example).
C21_DeniedExactly ==
    attached =>
        \A function \in FunctionSamples :
            canSetBreakpoint(function) <=> ~DeniedWithPrefix(function, "runtime.")

\* what canSetBreakpoint does: the prefix it tests is "runtime", without the dot
C21_DeniedExactly_RuntimeWithoutDot ==
    /\ attached =>
           \A function \in FunctionSamples :
               canSetBreakpoint(function) <=> ~DeniedWithPrefix(function, "runtime")
    /\ \A f \in FuncIDs : functions[f].exported = IsExported(functions[f].Name)

(***************************************************************************)
(* The life of Process.Binary.                                             *)
(***************************************************************************)
\* the transport calls of the handling of the thread at the head of the queue that
\* are steps of a thread: the calls during which the tracee may end (0: it does not)
StepCalls ==
    LET r == handleTrapEventOfThread(CurCtl, Head(queue))
    IN  {0} \cup {i \in 1..Len(r.trace) : r.trace[i].op = "StepAndWait"}

\* the exitAt-th transport call of c has been made and has returned an exit event
ExitObserved(c) ==
    c.exitAt \in 1..Len(c.trace) /\ c.trace[c.exitAt].op = "StepAndWait"

\* C22: Process.Binary is closed only when an exit event (Exited, Terminated,
\* CoreDump) has been returned by ContinueAndWait or by a step, or when Detach has
\* detached the transport; never while the tracee is attached and alive.  Every exit
\* event observed closes it.
C22_BinaryReleasedAtExitOrDetach ==
    /\ ~binaryOpen =>
           /\ Returned
           /\ IsExitEvent(call.op) \/ (call.op = "Detach" /\ ~attached)
    /\ (Returned /\ IsExitEvent(call.op)) => ~binaryOpen
    /\ (loop = "handling" /\ queue # <<>>) =>
           \A k \in StepCalls, event \in ExitEvents, after \in BOOLEAN :
               LET f == IF after THEN k + 1 ELSE 0
                   c == [CurCtl EXCEPT !.exitAt = k, !.exitEvent = event, !.failAt = f]
                   r == handleTrapEventOfThread(c, Head(queue))
               IN  /\ r.binaryOpen <=> ~ExitObserved(r)
                   /\ k # 0 => ExitObserved(r)
    /\ (loop = "handling" /\ queue = <<>> /\ interrupted) =>
           \A order \in Orders(DOMAIN breakpoints), f \in DetachFailPoints :
               LET q == Detach(Ctl(f), order)
               IN  /\ q.binaryOpen <=> q.attached
                   /\ q.attached <=> q.err # "nil"

\* the tracee has been terminated by a signal after the tracing point was hit:
\* MainLoop has returned and the binary is closed, the transport still attached
C22_Witness ==
    /\ Returned
    /\ call.op = "EventTypeTerminated"
    /\ hitOnce
    /\ attached
    /\ ~binaryOpen

\* MainLoop has detached the tracee: the binary is closed
C22_Witness_Detach ==
    /\ Returned
    /\ call.op = "Detach"
    /\ ~attached
    /\ ~binaryOpen

(***************************************************************************)
(* Lookup misses (SpecLookupMiss).                                         *)
(***************************************************************************)
\* the handling of a trapped thread has failed on a function lookup
LookupMissed == call.op = "handleTrapEventOfThread" /\ err = ErrNoModuleData

\* C23: when the handling of a trapped thread fails because a function lookup
\* misses, MainLoop does not return: it goes on to the next ContinueAndWait.
C23_LookupMissDoesNotEndMainLoop == LookupMissed => ~Returned

\* what the code does: every lookup miss in a handler makes MainLoop return, with
\* the threads left in the batch unhandled and the tracee not resumed
C23_LookupMissEndsMainLoop ==
    LookupMissed => (Returned /\ queue = <<>> /\ attached /\ binaryOpen)

(***************************************************************************)
(* The value decoder (valueBuilder) and the arguments of a stack frame.    *)
(* Memory is read in words of 8 bytes; a value is a record with its kind.  *)
(***************************************************************************)
\* dwarf types: int64, pointers, and the struct of a slice ([]T)
IntType == [kind |-> "int", StructName |-> "int64", ByteSize |-> 8]

PtrType(t) == [kind |-> "ptr", StructName |-> "*", ByteSize |-> 8, Type |-> t]

SliceType(t) ==
    [kind |-> "struct", StructName |-> "[]int64", ByteSize |-> 24,
     Field |-> <<[Name |-> "array", Type |-> PtrType(t), ByteOffset |-> 0],
                 [Name |-> "len", Type |-> IntType, ByteOffset |-> 8],
                 [Name |-> "cap", Type |-> IntType, ByteOffset |-> 16]>>]

\* a nil value
NilValue == [kind |-> "nil"]

\* a run-time panic of the tracer: a failed type assertion or a nil dereference
Panic(p) == [p EXCEPT !.err = "panic"]

\* reader.ReadMemory(addr, buff) with len(buff) = 8n: one transport call
ReadMemoryN(p, addr, n) ==
    IF Fails(p) \/ \E i \in 0..(n - 1) : addr + 8 * i \notin DOMAIN p.mem
    THEN [p EXCEPT !.trace = Logged(p, "ReadMemory", 0, addr, 0, FALSE), !.err = "error"]
    ELSE [p EXCEPT !.trace = Logged(p, "ReadMemory", 0, addr, p.mem[addr], TRUE),
                   !.ret = [i \in 1..n |-> p.mem[addr + 8 * (i - 1)]], !.err = "nil"]

RECURSIVE buildValue(_, _, _)
RECURSIVE buildFields(_, _, _, _, _)
RECURSIVE buildElems(_, _, _, _, _)

\* the loop of buildStructValue over typ.Field
buildFields(p, typ, val, i, fields) ==
    IF i > Len(typ.Field)
    THEN [p EXCEPT !.ret = [kind |-> "struct", fields |-> fields], !.err = "nil"]
    ELSE LET field == typ.Field[i]
             from == field.ByteOffset \div 8 + 1
             to == (field.ByteOffset + field.Type.ByteSize) \div 8
         IN  Try(buildValue(p, field.Type, SubSeq(val, from, to)), LAMBDA p1 :
                 buildFields(p1, typ, val, i + 1, MapPut(fields, field.Name, p1.ret)))

buildStructValue(p, typ, val) == buildFields(p, typ, val, 1, EmptyMap)

\* the loop of buildSliceValue over the elements after the first
buildElems(p, firstElem, i, len, vals) ==
    IF i >= len
    THEN [p EXCEPT !.ret = [kind |-> "slice", val |-> vals], !.err = "nil"]
    ELSE IF firstElem.pointedVal.kind = "nil" THEN Panic(p)
    ELSE LET addr == firstElem.addr + 8 * i
         IN  Try(buildValue(p, firstElem.PtrType, <<addr>>), LAMBDA p1 :
                 IF p1.ret.kind # "ptr" THEN Panic(p1)
                 ELSE buildElems(p1, firstElem, i + 1, len, Append(vals, p1.ret.pointedVal)))

buildSliceValue(p, typ, val) ==
    Try(buildStructValue(p, typ, val), LAMBDA p1 :
        LET structVal == p1.ret
        IN  IF structVal.fields["len"].kind # "int" THEN Panic(p1)
            ELSE IF structVal.fields["array"].kind # "ptr" THEN Panic(p1)
            ELSE LET len == structVal.fields["len"].val
                     firstElem == structVal.fields["array"]
                 IN  buildElems(p1, firstElem, 1, len, <<firstElem.pointedVal>>))

buildValue(p, typ, val) ==
    CASE typ.kind = "int" ->
             [p EXCEPT !.ret = [kind |-> "int", val |-> val[1]], !.err = "nil"]
      [] typ.kind = "ptr" ->
             LET addr == val[1]
                 p1 == ReadMemoryN(p, addr, typ.Type.ByteSize \div 8)
             IN  IF addr = 0 THEN [p EXCEPT !.ret = NilValue, !.err = "nil"]
                 ELSE IF p1.err # "nil" THEN [p1 EXCEPT !.ret = NilValue, !.err = "nil"]
                 ELSE Try(buildValue(p1, typ.Type, p1.ret), LAMBDA p2 :
                          [p2 EXCEPT !.ret = [kind |-> "ptr", PtrType |-> typ, addr |-> addr,
                                              pointedVal |-> p2.ret]])
      [] typ.kind = "struct" ->
             IF HasPrefix(typ.StructName, "[]")
             THEN buildSliceValue(p, typ, val)
             ELSE buildStructValue(p, typ, val)
      [] OTHER -> [p EXCEPT !.ret = NilValue, !.err = "nil"]

\* strings.Join(strs, ", ")
RECURSIVE Join(_)
Join(strs) ==
    IF strs = <<>> THEN ""
    ELSE IF Len(strs) = 1 THEN strs[1]
    ELSE strs[1] \o ", " \o Join(Tail(strs))

\* value.String(), and what fmt prints for a nil value
RECURSIVE String(_)
String(v) ==
    CASE v.kind = "nil" -> "%!s(<nil>)"
      [] v.kind = "int" -> ToString(v.val)
      [] v.kind = "ptr" -> "&" \o String(v.pointedVal)
      [] v.kind = "slice" -> "[]{" \o Join([i \in 1..Len(v.val) |-> String(v.val[i])]) \o "}"
      [] OTHER -> "{}"

\* the closure parseValue that currentArgs makes for param
parseValue(p, param, addrBeginningOfArgs) ==
    IF ~param.Exist THEN [p EXCEPT !.ret = NilValue, !.err = "nil"]
    ELSE LET p1 == ReadMemoryN(p, addrBeginningOfArgs + param.Offset, param.Typ.ByteSize \div 8)
         IN  IF p1.err # "nil" THEN [p1 EXCEPT !.ret = NilValue, !.err = "nil"]
             ELSE buildValue(p1, param.Typ, p1.ret)

\* Argument.ParseValue
ParseValue(p, param, addrBeginningOfArgs) ==
    Try(parseValue(p, param, addrBeginningOfArgs), LAMBDA p1 :
        [p1 EXCEPT !.ret = IF p1.ret.kind = "nil"
                           THEN param.Name \o " = -"
                           ELSE param.Name \o " = " \o String(p1.ret)])

\* the arguments of a frame, parsed in order; ret is the list of their strings
RECURSIVE ParseValues(_, _, _, _)
ParseValues(p, params, addrBeginningOfArgs, strs) ==
    IF params = <<>> THEN [p EXCEPT !.ret = strs, !.err = "nil"]
    ELSE Try(ParseValue(p, Head(params), addrBeginningOfArgs), LAMBDA p1 :
             ParseValues(p1, Tail(params), addrBeginningOfArgs, Append(strs, p1.ret)))

(***************************************************************************)
(* SpecDecoder: the tracee stores words in the argument area of a frame of *)
(* thread 1, and the arguments of the frame are parsed, for the parameter  *)
(* lists of ParamLists.                                                    *)
(***************************************************************************)
ArgsBase == stackHi(1) - 32

ArgAddrs == {ArgsBase, ArgsBase + 8, ArgsBase + 16, ArgsBase + 24}

\* the words the tracee stores: nil, a small number, the addresses of the last two
\* words of the stack of thread 2, and an address that is not mapped
Unmapped == 5000

Words == {0, 2, stackHi(2) - 16, stackHi(2) - 8, Unmapped}

Param(name, typ, offset) == [Name |-> name, Typ |-> typ, Offset |-> offset, Exist |-> TRUE]

ParamLists ==
    {<<Param("a", IntType, 0), Param("b", IntType, 8)>>,
     <<Param("p", PtrType(IntType), 0), Param("b", IntType, 8)>>,
     <<Param("s", SliceType(IntType), 0), Param("b", IntType, 24)>>}

ParseFailPoints == 0..3

\* the tracee runs until the arguments of the frame are parsed
TraceeStoresArgument ==
    \E addr \in ArgAddrs, w \in Words :
        /\ loop = "init"
        /\ call.op # "ParseValue"
        /\ mem' = [mem EXCEPT ![addr] = w]
        /\ call' = Called("tracee", 1, 0, 1)
        /\ UNCHANGED <<regs, pending, attached, binaryOpen, breakpoints, trace, err, cvars>>

CallParseValues ==
    \E params \in ParamLists, failAt \in ParseFailPoints :
        /\ loop = "init"
        /\ LET r == ParseValues(Proc(failAt), params, ArgsBase, <<>>)
           IN  /\ trace' = r.trace
               /\ err' = r.err
               /\ output' = IF r.err = "nil" THEN r.ret ELSE <<>>
        /\ call' = Called("ParseValue", 1, ArgsBase, Len(params))
        /\ UNCHANGED <<mem, regs, pending, attached, binaryOpen, breakpoints, statusStore,
                       tracingPoint, depth, hitOnce, interrupted, loop, queue>>

NextDecoder ==
    \/ TraceeStoresArgument
    \/ CallParseValues

SpecDecoder == Init /\ [][NextDecoder]_vars

\* a read of memory has failed in the calls of tr
ReadFailed(tr) == \E i \in 1..Len(tr) : tr[i].op = "ReadMemory" /\ ~tr[i].ok

\* every argument of params is rendered in strs, and an argument that is a pointer
\* whose target is not mapped is rendered as "name = -"
RenderedWithNulls(params, strs) ==
    /\ Len(strs) = Len(params)
    /\ \A i \in 1..Len(params) :
           (params[i].Typ.kind = "ptr" /\ mem[ArgsBase + params[i].Offset] = Unmapped)
               => strs[i] = params[i].Name \o " = -"

\* C24: a memory-read failure while an argument is decoded never aborts the trace:
\* the decoder does not crash and returns no error, every argument of the frame is
\* rendered, and the argument whose value (or pointer target) cannot be read is
\* rendered as "name = -".
C24_ReadFailureRendersNull ==
    \A params \in ParamLists, failAt \in ParseFailPoints :
        LET r == ParseValues(Proc(failAt), params, ArgsBase, <<>>)
        IN  ReadFailed(r.trace) =>
                /\ r.err = "nil"
                /\ RenderedWithNulls(params, r.ret)
                /\ failAt = 1 => r.ret[1] = params[1].Name \o " = -"

\* the same, for the frames without an argument that is a slice
C24_ReadFailureRendersNull_NoSlice ==
    \A params \in ParamLists, failAt \in ParseFailPoints :
        (\A i \in 1..Len(params) : params[i].Typ.kind # "struct") =>
            LET r == ParseValues(Proc(failAt), params, ArgsBase, <<>>)
            IN  ReadFailed(r.trace) =>
                    /\ r.err = "nil"
                    /\ RenderedWithNulls(params, r.ret)
                    /\ failAt = 1 => r.ret[1] = params[1].Name \o " = -"

(***************************************************************************)
(* The module data of the tracee (runtime.moduledata), read lazily from    *)
(* its memory, and the lookup of a function by pc in it.                   *)
(*                                                                         *)
(* A module data record at address md holds, at the offsets below, minpc,  *)
(* maxpc, the ftab slice (array, len), findfunctab, the pclntable and      *)
(* next.  ftab[i] is 16 bytes: entry, funcoff.  A findfuncbucket is 20     *)
(* bytes: idx (uint32) and 16 subbuckets of a byte.  Memory is modelled    *)
(* field by field: one cell per field, at the address of the field.        *)
(***************************************************************************)
minfunc == 16

pcbucketsize == 256 * minfunc

FieldOffsets ==
    [minpc |-> 0, maxpc |-> 8, ftabArray |-> 16, ftabLen |-> 24, findfunctab |-> 32,
     pclntable |-> 40, next |-> 48]

\* retrieveUint64: the field, 0 when the read fails
retrieveUint64(m, md, fieldName) ==
    IF md + FieldOffsets[fieldName] \in DOMAIN m THEN m[md + FieldOffsets[fieldName]] ELSE 0

md_minpc(m, md) == retrieveUint64(m, md, "minpc")

md_maxpc(m, md) == retrieveUint64(m, md, "maxpc")

md_findfunctab(m, md) == retrieveUint64(m, md, "findfunctab")

md_next(m, md) == retrieveUint64(m, md, "next")

md_ftabLen(m, md) == retrieveUint64(m, md, "ftabLen")

md_pclntable(m, md, index) == retrieveUint64(m, md, "pclntable") + index

\* ftab[index]: entry and funcoff, both 0 when the read fails
md_functab(m, md, index) ==
    LET addr == retrieveUint64(m, md, "ftabArray") + index * 16
    IN  IF addr \in DOMAIN m /\ addr + 8 \in DOMAIN m
        THEN [entry |-> m[addr], funcoff |-> m[addr + 8]]
        ELSE [entry |-> 0, funcoff |-> 0]

\* the cap on the length of the module data list
MaxModules == 2

firstModuleDataAddress == 10000

RECURSIVE moduleDataFrom(_, _, _)
moduleDataFrom(m, moduleDataAddr, n) ==
    IF moduleDataAddr = 0 \/ n = 0 THEN <<>>
    ELSE <<moduleDataAddr>> \o moduleDataFrom(m, md_next(m, moduleDataAddr), n - 1)

parseModuleDataList(m) == moduleDataFrom(m, firstModuleDataAddress, MaxModules)

\* the first module of the list whose range holds pc, 0 (nil) when there is none
findModuleDataByPC(m, pc) ==
    LET list == parseModuleDataList(m)
        holds(i) == md_minpc(m, list[i]) <= pc /\ pc < md_maxpc(m, list[i])
    IN  IF \E i \in 1..Len(list) : holds(i)
        THEN list[CHOOSE i \in 1..Len(list) : holds(i) /\ \A j \in 1..(i - 1) : ~holds(j)]
        ELSE 0

findFtabIndex(m, md, pc) ==
    LET x == pc - md_minpc(m, md)
        bucketIndex == x \div pcbucketsize
        subbucketIndex == (x % pcbucketsize) \div (pcbucketsize \div 16)
        ptrToFindFuncBucket == md_findfunctab(m, md) + bucketIndex * 20
    IN  IF ptrToFindFuncBucket \notin DOMAIN m
             \/ ptrToFindFuncBucket + 4 + subbucketIndex \notin DOMAIN m
        THEN [err |-> "error", ret |-> 0]
        ELSE [err |-> "nil",
              ret |-> m[ptrToFindFuncBucket] + m[ptrToFindFuncBucket + 4 + subbucketIndex]]

\* the loops of adjustFtabIndex; -1: the loop does not end within the table
RECURSIVE searchBackward(_, _, _, _)
searchBackward(m, md, pc, ftabIdx) ==
    IF md_functab(m, md, ftabIdx).entry > pc /\ ftabIdx > 0
    THEN searchBackward(m, md, pc, ftabIdx - 1)
    ELSE ftabIdx

RECURSIVE searchForward(_, _, _, _)
searchForward(m, md, pc, ftabIdx) ==
    IF md_functab(m, md, ftabIdx + 1).entry <= pc
    THEN IF ftabIdx > md_ftabLen(m, md) THEN -1 ELSE searchForward(m, md, pc, ftabIdx + 1)
    ELSE ftabIdx

\* mutant: the index the findfunctab gives is taken as it is
adjustFtabIndex_NoSearch(m, md, pc, ftabIdx) == [err |-> "nil", ret |-> ftabIdx]

adjustFtabIndex(m, md, pc, ftabIdx) ==
    LET ftabLen == md_ftabLen(m, md)
        idx == IF ftabIdx >= ftabLen THEN ftabLen - 1 ELSE ftabIdx
    IN  IF pc < md_functab(m, md, idx).entry
        THEN IF searchBackward(m, md, pc, idx) = 0
             THEN [err |-> "panic", ret |-> 0]
             ELSE [err |-> "nil", ret |-> searchBackward(m, md, pc, idx)]
        ELSE IF searchForward(m, md, pc, idx) = -1
             THEN [err |-> "diverges", ret |-> 0]
             ELSE [err |-> "nil", ret |-> searchForward(m, md, pc, idx)]

findEndAddr(m, md, ftabIdx) ==
    IF ftabIdx + 1 >= md_ftabLen(m, md) THEN 0 ELSE md_functab(m, md, ftabIdx + 1).entry

\* the _func record of the function (entry, nameoff) and its end address
findFuncType(m, md, pc) ==
    LET i == findFtabIndex(m, md, pc)
        j == adjustFtabIndex(m, md, pc, i.ret)
        funcTypePtr == md_pclntable(m, md, md_functab(m, md, j.ret).funcoff)
    IN  IF i.err # "nil" THEN i
        ELSE IF j.err # "nil" THEN j
        ELSE IF funcTypePtr \notin DOMAIN m \/ funcTypePtr + 8 \notin DOMAIN m
        THEN [err |-> "error", ret |-> 0]
        ELSE [err |-> "nil",
              ret |-> [entry |-> m[funcTypePtr], nameoff |-> m[funcTypePtr + 8],
                       endAddr |-> findEndAddr(m, md, j.ret)]]

\* the name at pclntable[nameoff]
resolveNameoff(m, md, nameoff) ==
    IF md_pclntable(m, md, nameoff) \in DOMAIN m
    THEN [err |-> "nil", ret |-> m[md_pclntable(m, md, nameoff)]]
    ELSE [err |-> "error", ret |-> ""]

findFunctionByModuleData(m, pc) ==
    LET md == findModuleDataByPC(m, pc)
        t == findFuncType(m, md, pc)
        funcName == resolveNameoff(m, md, t.ret.nameoff)
    IN  IF md = 0 THEN [err |-> ErrNoModuleData, ret |-> 0]
        ELSE IF t.err # "nil" THEN t
        ELSE IF funcName.err # "nil" THEN funcName
        ELSE [err |-> "nil",
              ret |-> [Name |-> funcName.ret, StartAddr |-> t.ret.entry,
                       EndAddr |-> t.ret.endAddr]]

(***************************************************************************)
(* SpecModuleData: the tracee is a binary of one or two modules, as the    *)
(* linker lays them out; FindFunction is called for the pcs at the edges   *)
(* of the modules and of their functions, which the debug information of   *)
(* the binary does not resolve.                                            *)
(***************************************************************************)
\* a module: the entries of its functions, from minpc up, and its maxpc
Module(minpc, offsets, tail) ==
    LET last == CHOOSE o \in offsets : \A o2 \in offsets : o2 <= o
        RECURSIVE sorted(_)
        sorted(S) == IF S = {} THEN <<>>
                     ELSE LET o == CHOOSE x \in S : \A y \in S : x <= y
                          IN  <<minpc + o>> \o sorted(S \ {o})
    IN  [minpc |-> minpc, entries |-> sorted(offsets), maxpc |-> minpc + last + tail]

FunctionOffsets == {16, 300, 4200}

Tails == {16, 600}

Gaps == {0, 1000}

ModuleLists ==
    LET firsts == {Module(pcbucketsize, {0} \cup S, t) : S \in SUBSET FunctionOffsets, t \in Tails}
    IN  {<<m>> : m \in firsts}
            \cup {<<m, Module(m.maxpc + g, {0, 16}, 16)>> : m \in firsts, g \in Gaps}

\* the index in ftab (from 0) of the function of module mod that holds address a
IndexOf(mod, a) ==
    LET below == {i \in 1..Len(mod.entries) : mod.entries[i] <= a}
    IN  (CHOOSE i \in below : \A j \in below : j <= i) - 1

\* the memory cells of module mod, the k-th of the list, with the address of the next
ModuleCells(mod, k, next) ==
    LET A == firstModuleDataAddress * k
        n == Len(mod.entries)
        buckets == 0..((mod.maxpc - mod.minpc - 1) \div pcbucketsize)
        start(b, sub) == mod.minpc + pcbucketsize * b + (pcbucketsize \div 16) * sub
    IN  {<<A, mod.minpc>>, <<A + 8, mod.maxpc>>, <<A + 16, A + 1000>>, <<A + 24, n + 1>>,
         <<A + 32, A + 2000>>, <<A + 40, A + 3000>>, <<A + 48, next>>}
        \cup {<<A + 1000 + 16 * (i - 1), mod.entries[i]>> : i \in 1..n}
        \cup {<<A + 1000 + 16 * (i - 1) + 8, 100 * i>> : i \in 1..n}
        \cup {<<A + 1000 + 16 * n, mod.maxpc>>, <<A + 1000 + 16 * n + 8, 0>>}
        \cup {<<A + 2000 + 20 * b, IndexOf(mod, start(b, 0))>> : b \in buckets}
        \cup {<<A + 2000 + 20 * b + 4 + sub,
                IndexOf(mod, start(b, sub)) - IndexOf(mod, start(b, 0))>> :
                  b \in buckets, sub \in 0..15}
        \cup {<<A + 3000 + 100 * i, mod.entries[i]>> : i \in 1..n}
        \cup {<<A + 3000 + 100 * i + 8, 100 * i + 50>> : i \in 1..n}
        \cup {<<A + 3000 + 100 * i + 50, "m" \o ToString(k) \o ".f" \o ToString(i)>> :
                  i \in 1..n}

\* the memory of a tracee with the modules of mods
ModuleImage(mods) ==
    LET cells == UNION {ModuleCells(mods[k], k,
                            IF k < Len(mods) THEN firstModuleDataAddress * (k + 1) ELSE 0) :
                        k \in 1..Len(mods)}
    IN  [a \in DOMAIN text \cup {c[1] : c \in cells} |->
            IF a \in DOMAIN text THEN text[a] ELSE (CHOOSE c \in cells : c[1] = a)[2]]

InitModuleData ==
    /\ \E mods \in ModuleLists : mem = ModuleImage(mods)
    /\ regs = [t \in Threads |-> [Rip |-> 1, Rsp |-> stackHi(t) - 16]]
    /\ pending = {}
    /\ attached = TRUE
    /\ binaryOpen = TRUE
    /\ breakpoints = EmptyMap
    /\ trace = <<>>
    /\ err = "nil"
    /\ call = Called("LaunchProcess", 0, 0, 0)
    /\ statusStore = EmptyMap
    /\ tracingPoint = NoTracingPoint
    /\ depth = 0
    /\ hitOnce = FALSE
    /\ interrupted = FALSE
    /\ output = <<>>
    /\ loop = "init"
    /\ queue = <<>>

ModuleDataSet == Range(parseModuleDataList(mem))

\* the entries of the functions of module md
Entries(md) == {md_functab(mem, md, i).entry : i \in 0..(md_ftabLen(mem, md) - 2)}

LookupPCs ==
    UNION {{md_minpc(mem, md) - 1, md_minpc(mem, md), md_maxpc(mem, md) - 1, md_maxpc(mem, md)}
              \cup Entries(md) \cup {e + 1 : e \in Entries(md)} : md \in ModuleDataSet}

CallFindFunction ==
    \E pc \in LookupPCs :
        /\ attached
        /\ LET r == findFunctionByModuleData(mem, pc)
           IN  /\ err' = r.err
               /\ output' = IF r.err = "nil" THEN <<r.ret.Name>> ELSE <<>>
        /\ trace' = <<>>
        /\ call' = Called("FindFunction", 0, pc, 0)
        /\ UNCHANGED <<mem, regs, pending, attached, binaryOpen, breakpoints, statusStore,
                       tracingPoint, depth, hitOnce, interrupted, loop, queue>>

SpecModuleData == InitModuleData /\ [][CallFindFunction]_vars

\* the function of module md that holds pc: its entry is the greatest entry <= pc
FunctionOf(md, pc) ==
    LET i == CHOOSE k \in 0..(md_ftabLen(mem, md) - 2) :
                 /\ md_functab(mem, md, k).entry <= pc
                 /\ \A j \in 0..(md_ftabLen(mem, md) - 2) :
                        md_functab(mem, md, j).entry <= pc
                            => md_functab(mem, md, j).entry <= md_functab(mem, md, k).entry
        funcoff == md_functab(mem, md, i).funcoff
    IN  [Name |-> mem[md_pclntable(mem, md, mem[md_pclntable(mem, md, funcoff) + 8])],
         StartAddr |-> md_functab(mem, md, i).entry,
         EndAddr |-> md_functab(mem, md, i + 1).entry]

\* C25: for every module, with range [minpc, maxpc) and a sorted ftab ending with the
\* maxpc sentinel, the lookup in the module data succeeds for pc = minpc and for
\* pc = maxpc - 1 and returns the function whose entry is the greatest ftab entry
\* <= pc; for pc = maxpc it fails with the no-moduledata error when no other module
\* holds that pc.
C25_ModuleEdges ==
    \A md \in ModuleDataSet :
        LET minpc == md_minpc(mem, md)
            maxpc == md_maxpc(mem, md)
        IN  /\ \A pc \in {minpc, maxpc - 1} :
                   /\ findFunctionByModuleData(mem, pc).err = "nil"
                   /\ findFunctionByModuleData(mem, pc).ret = FunctionOf(md, pc)
            /\ findFunctionByModuleData(mem, minpc).ret.StartAddr = minpc
            /\ (\A other \in ModuleDataSet :
                    ~(md_minpc(mem, other) <= maxpc /\ maxpc < md_maxpc(mem, other)))
                   => findFunctionByModuleData(mem, maxpc).err = ErrNoModuleData

\* FindFunction has found the last function of a module of three functions or more
\* at maxpc - 1, searching forward from the index the findfunctab gives
C25_Witness ==
    /\ call.op = "FindFunction"
    /\ err = "nil"
    /\ \E md \in ModuleDataSet :
           /\ call.addr = md_maxpc(mem, md) - 1
           /\ md_ftabLen(mem, md) >= 4
           /\ findFtabIndex(mem, md, call.addr).ret < md_ftabLen(mem, md) - 2
           /\ output = <<FunctionOf(md, call.addr).Name>>

(***************************************************************************)
(* SingleStep and the breakpoint under the thread.                         *)
(***************************************************************************)
SingleStepFailPoints == 0..15

\* the calls of tr that write target memory
Writes(tr) == {i \in 1..Len(tr) : tr[i].op = "WriteMemory"}

\* the steps thread t has been asked to make in the calls of tr, made or not
StepCallsOf(tr, t) == {i \in 1..Len(tr) : tr[i].op = "StepAndWait" /\ tr[i].tid = t}

C26_Witness_NoRecord ==
    /\ call.op = "SingleStep"
    /\ err = "nil"
    /\ call.addr \notin DOMAIN breakpoints
    /\ Writes(trace) = {}
    /\ Steps(trace, call.tid) # {}

(***************************************************************************)
(* The frames pushed and popped by the trap handlers.                      *)
(***************************************************************************)
\* the go routine of the thread at the head of the queue
HeadRoutine == CurrentGoRoutineInfo(CurCtl, Head(queue)).ret

\* the trap of the thread at the head of the queue is at a breakpoint its go routine
\* hits
HeadHits == HitBreakpoint(CurCtl, HeadRoutine.CurrentPC - 1, HeadRoutine.ID)

\* the trap of the thread at the head of the queue is handled as a function call
IsCallTrap ==
    /\ loop = "handling" /\ queue # <<>>
    /\ HeadHits
    /\ HeadRoutine.UsedStackSize > usedStackSize(statusOf(CurCtl, HeadRoutine.ID))

\* the trap of the thread at the head of the queue is handled as a function return
IsReturnTrap ==
    /\ loop = "handling" /\ queue # <<>>
    /\ HeadHits
    /\ HeadRoutine.UsedStackSize < usedStackSize(statusOf(CurCtl, HeadRoutine.ID))

C27_Witness_Printed ==
    /\ call.op = "handleTrapEventOfThread"
    /\ err = "nil"
    /\ Len(output) = 1 /\ output[1].dir = "=>"
    /\ Len(statusOf(CurCtl, call.gid).callingFunctions) = 2
    /\ statusOf(CurCtl, call.gid).callingFunctions[2].Function.Value = call.addr

\* C28: when the trap of go routine r at the head of the queue, at address pc, is a
\* return trap and its handling returns no error, the calling functions of r are the
\* ones before without the newest; the thread has made one instruction, the original
\* one at pc, and stands past it; the trap byte was written back after the step and
\* only then was one interest of r in the breakpoint at pc removed (the original byte
\* is written by the removal, after the step, exactly when no interest is left); the
\* record and the trap byte remain at pc if and only if another interest remains.
C28_ReturnTrapPopsFrame ==
    IsReturnTrap =>
        LET threadID == Head(queue)
            id == HeadRoutine.ID
            pc == regs[threadID].Rip - 1
            before == statusOf(CurCtl, id).callingFunctions
            r == handleTrapEventOfThread(CurCtl, threadID)
            after == statusOf(r, id).callingFunctions
            targets == breakpoints[pc].targetGoRoutineIDs
            remains == Len(targets) > 1
            steps == {i \in 1..Len(r.trace) : r.trace[i].op = "StepAndWait"}
            write(val) == [op |-> "WriteMemory", tid |-> 0, addr |-> pc, val |-> val,
                           ok |-> TRUE]
        IN  r.err = "nil" =>
                /\ Len(before) >= 1
                /\ after = SubSeq(before, 1, Len(before) - 1)
                /\ id \in Range(targets)
                /\ Cardinality(steps) = 1
                /\ \A i \in steps :
                       /\ r.trace[i].ok /\ r.trace[i].tid = threadID
                       /\ r.trace[i].addr = pc /\ r.trace[i].val = text[pc]
                       /\ r.trace[i - 1] = write(text[pc])
                       /\ \A j \in 1..(i - 2) : r.trace[j].op # "WriteMemory"
                       /\ SubSeq(r.trace, i + 1, Len(r.trace)) =
                              IF remains THEN <<write(breakpointInsts)>>
                              ELSE <<write(breakpointInsts), write(text[pc])>>
                /\ r.regs[threadID].Rip = pc + 1
                /\ remains <=> pc \in DOMAIN r.breakpoints
                /\ remains <=> r.mem[pc] = breakpointInsts
                /\ remains =>
                       r.breakpoints[pc].targetGoRoutineIDs =
                           RemoveAt(targets, FirstIndex(targets, id))
                /\ ~remains => r.mem[pc] = text[pc]

\* a return has been handled at a breakpoint in which an interest remains: the frame
\* is popped, the thread is past the address and the trap byte is still there
C28_Witness ==
    /\ call.op = "handleTrapEventOfThread"
    /\ err = "nil"
    /\ \E i \in 1..Len(trace) :
           /\ trace[i].op = "StepAndWait" /\ trace[i].ok /\ trace[i].addr = call.addr
           /\ trace[i].val = text[call.addr]
    /\ call.addr % 4 = 2
    /\ call.addr \in DOMAIN breakpoints
    /\ mem[call.addr] = breakpointInsts
    /\ regs[call.tid].Rip = call.addr + 1
    /\ stackHi(call.gid) - regs[call.tid].Rsp < 24 * (Len(CallingFunctions(call.gid)) + 1)

\* a return has been handled at a breakpoint in which no interest remains: the
\* breakpoint is cleared after the step
C28_Witness_Cleared ==
    /\ call.op = "handleTrapEventOfThread"
    /\ err = "nil"
    /\ Len(trace) >= 3
    /\ trace[Len(trace) - 2].op = "StepAndWait" /\ trace[Len(trace) - 2].addr = call.addr
    /\ trace[Len(trace)].op = "WriteMemory" /\ trace[Len(trace)].val = text[call.addr]
    /\ call.addr \notin DOMAIN breakpoints
    /\ mem[call.addr] = text[call.addr]

(***************************************************************************)
(* The interest of a go routine in a conditional breakpoint is counted.    *)
(***************************************************************************)
MaxCalls == 3

\* a call of SetConditionalBreakpoint or ClearConditionalBreakpoint at one address
\* for a go routine
\* the ids of go routines (0 is the id SetBreakpoint passes for no go routine)
GoRoutines == RoutineIDs \ {0}

BreakpointCalls == [op : {"set", "clear"}, goRoutineID : GoRoutines]

CallSeqs == UNION {[1..n -> BreakpointCalls] : n \in 1..MaxCalls}

\* the process after the calls of calls at addr, in their order
RECURSIVE AfterCalls(_, _, _)
AfterCalls(p, addr, calls) ==
    IF calls = <<>> THEN p
    ELSE LET p1 == IF Head(calls).op = "set"
                   THEN SetConditionalBreakpoint(p, addr, Head(calls).goRoutineID)
                   ELSE ClearConditionalBreakpoint(p, addr, Head(calls).goRoutineID)
         IN  IF p1.err # "nil" THEN p1 ELSE AfterCalls(p1, addr, Tail(calls))

\* the interest of go routine id in the breakpoint at addr
Interest(p, addr, id) ==
    IF addr \in DOMAIN p.breakpoints THEN Count(Targets(p, addr), id) ELSE 0

\* the sets of go routine id among calls not yet taken back by a clear of id, on top
\* of an interest of n: a clear takes one back, and none when there is none
RECURSIVE Balance(_, _, _)
Balance(n, calls, id) ==
    IF calls = <<>> THEN n
    ELSE IF Head(calls).goRoutineID # id THEN Balance(n, Tail(calls), id)
    ELSE IF Head(calls).op = "set" THEN Balance(n + 1, Tail(calls), id)
    ELSE Balance(IF n > 0 THEN n - 1 ELSE 0, Tail(calls), id)

\* the breakpoint at addr was created by SetConditionalBreakpoint, or is yet to be
ConditionallyCreated(addr) ==
    addr \in DOMAIN breakpoints => breakpoints[addr].targetGoRoutineIDs # <<>>

\* C29: from every state in which the breakpoint at A is absent or conditional, after
\* any calls of SetConditionalBreakpoint(A, .) and ClearConditionalBreakpoint(A, .)
\* for any go routines, in any order, the interest of each go routine r in the
\* breakpoint at A is the number of its sets not taken back by one of its clears
\* (each clear takes back one, the calls for other go routines none); while that
\* number is positive, as after n sets and k < n clears, HitBreakpoint(A, r) is true
\* and the trap byte is at A.
C29_InterestIsCounted ==
    attached =>
        \A A \in Addrs, calls \in CallSeqs :
            ConditionallyCreated(A) =>
                LET r == AfterCalls(Cur, A, calls)
                IN  /\ r.err = "nil"
                    /\ \A id \in GoRoutines :
                           LET n == Balance(Interest(Cur, A, id), calls, id)
                           IN  /\ Interest(r, A, id) = n
                               /\ n > 0 =>
                                      /\ HitBreakpoint(r, A, id)
                                      /\ r.mem[A] = breakpointInsts

\* ClearConditionalBreakpoint has removed one of two interests of a go routine: the
\* go routine still hits the breakpoint and the trap byte is at its address
C29_Witness ==
    /\ call.op = "ClearConditionalBreakpoint"
    /\ err = "nil"
    /\ Interest(Cur, call.addr, call.gid) = 1
    /\ Len(Targets(Cur, call.addr)) = 1
    /\ Len(trace) = 0
    /\ HitBreakpoint(Cur, call.addr, call.gid)
    /\ mem[call.addr] = breakpointInsts

(***************************************************************************)
(* A trap of one go routine leaves the other go routines alone.            *)
(***************************************************************************)
\* the entries of go routine id in tracingPoint.goRoutinesInside, in their order
InsideEntries(tp, id) == SelectSeq(tp.goRoutinesInside, LAMBDA e : e.id = id)

\* C30: handling the trap of the thread at the head of the queue, of go routine r,
\* leaves every other go routine as it was: its status in statusStore (calling
\* functions), its entries in the tracing point (inside, with the recorded depth) and
\* its interest in every breakpoint, which still carries the trap byte; a line the
\* handler prints is a line of r, with the depth counted over r's own calling
\* functions.
C30_OtherRoutinesUntouched ==
    (loop = "handling" /\ queue # <<>>) =>
        LET threadID == Head(queue)
            id == HeadRoutine.ID
            before == statusOf(CurCtl, id).callingFunctions
            r == handleTrapEventOfThread(CurCtl, threadID)
        IN  /\ \A other \in GoRoutines \ {id} :
                   /\ other \in DOMAIN r.statusStore <=> other \in DOMAIN statusStore
                   /\ statusOf(r, other) = statusOf(CurCtl, other)
                   /\ InsideEntries(r.tracingPoint, other) = InsideEntries(tracingPoint, other)
                   /\ tracingPoint_Inside(tracingPoint, other) =>
                          EntryDepth(r.tracingPoint, other) = EntryDepth(tracingPoint, other)
                   /\ \A addr \in DOMAIN breakpoints :
                          /\ Interest(r, addr, other) = Interest(CurCtl, addr, other)
                          /\ Interest(CurCtl, addr, other) > 0 =>
                                 /\ HitBreakpoint(r, addr, other)
                                 /\ r.mem[addr] = breakpointInsts
            /\ \A i \in 1..Len(r.output) :
                   /\ r.output[i].goRoutineID = id
                   /\ r.output[i].indent + 1 =
                          IF r.output[i].dir = "=>" THEN Len(before) + 1 ELSE Len(before)

\* the return of a go routine from the tracing point has been handled and printed
\* while the other go routine is inside the tracing point, entered at the same depth
\* and returning to the same address: the other go routine is still inside and still
\* hits the breakpoint at the return address
C30_Witness ==
    /\ call.op = "handleTrapEventOfThread"
    /\ err = "nil"
    /\ Len(output) = 1 /\ output[1].dir = "<=" /\ output[1].goRoutineID = call.gid
    /\ ~tracingPoint_Inside(tracingPoint, call.gid)
    /\ \E other \in GoRoutines \ {call.gid} :
           /\ tracingPoint_Inside(tracingPoint, other)
           /\ EntryDepth(tracingPoint, other) = output[1].indent + 1
           /\ Len(CallingFunctions(other)) >= 1
           /\ Interest(CurCtl, call.addr, other) >= 1
           /\ mem[call.addr] = breakpointInsts

(***************************************************************************)
(* The printed lines of a go routine are well nested.                      *)
(***************************************************************************)
\* the calling functions of go routine id in statusStore store
FramesOf(store, id) == IF id \in DOMAIN store THEN store[id].callingFunctions ELSE <<>>

\* The call line of the i-th calling function of go routine id has been printed and
\* its return line has not: with tracing point tp, the go routine is inside, the
\* frame is not below the one it entered with and not deeper than the depth limit.
OpenLine(tp, dep, id, i) ==
    /\ tracingPoint_Inside(tp, id)
    /\ EntryDepth(tp, id) <= i
    /\ i - EntryDepth(tp, id) <= dep

\* the step is one turn of the loop of handleTrapEvent
HandlerStep == loop = "handling" /\ queue # <<>> /\ interrupted' = interrupted

\* C31: the call lines of a go routine that are printed and still unmatched are the
\* lines of those of its calling functions for which OpenLine holds.  A step keeps
\* the frames it does not push or pop, and which of them have an open line; a frame
\* is pushed or popped one at a time, by a handler; the handler that pushes frame d
\* prints the call line of its function at depth d exactly when the frame has an
\* open line afterwards, the handler that pops frame d prints the return line of
\* its function at depth d exactly when the frame had an open line, which is the
\* newest open one since d is the newest frame; nothing else is printed.
C31_Step ==
    /\ \A id \in Threads :
        LET before == FramesOf(statusStore, id)
            after == FramesOf(statusStore', id)
            n == Len(before)
            kept == IF Len(after) < n THEN Len(after) ELSE n
            line(dir, function, d) ==
                [dir |-> dir, indent |-> d - 1, goRoutineID |-> id, name |-> function.Name]
        IN  /\ Len(after) \in {n - 1, n, n + 1}
            /\ SubSeq(after, 1, kept) = SubSeq(before, 1, kept)
            /\ \A i \in 1..kept : OpenLine(tracingPoint', depth', id, i) <=> OpenLine(tracingPoint, depth, id, i)
            /\ Len(after) = n + 1 =>
                   /\ HandlerStep
                   /\ output' = IF OpenLine(tracingPoint', depth', id, n + 1)
                                THEN <<line("=>", after[n + 1].Function, n + 1)>>
                                ELSE <<>>
            /\ Len(after) = n - 1 =>
                   /\ HandlerStep
                   /\ output' = IF OpenLine(tracingPoint, depth, id, n)
                                THEN <<line("<=", before[n].Function, n)>>
                                ELSE <<>>
    /\ (HandlerStep /\ \A id \in Threads :
                           Len(FramesOf(statusStore', id)) = Len(FramesOf(statusStore, id)))
           => output' = <<>>

C31_LinesWellNested == [][C31_Step]_vars

\* what the code does: the lines are well nested for the depth limits that are not
\* negative
C31_LinesWellNested_DepthNotNegative == [][depth >= 0 => C31_Step]_vars

\* the return of a function called from the tracing point has been printed at depth
\* 2, and the line of the tracing point, at depth 1, is still open
C31_Witness ==
    /\ call.op = "handleTrapEventOfThread"
    /\ err = "nil"
    /\ Len(output) = 1 /\ output[1].dir = "<=" /\ output[1].indent = 1
    /\ output[1].goRoutineID = call.gid
    /\ Len(FramesOf(statusStore, call.gid)) = 1
    /\ OpenLine(tracingPoint, depth, call.gid, 1)
    /\ FramesOf(statusStore, call.gid)[1].Function.Name # output[1].name

(***************************************************************************)
(* SpecSkip: findNumFramesToSkip applied to the calling functions of a go  *)
(* routine and the used stack size of a running defer.  The go routine is  *)
(* panicking: it has a calling function at least (runtime.gopanic).        *)
(***************************************************************************)
FrameSizes == {24, 48, 72, 96}

DeferSizes == {8 * k : k \in 0..13}

\* the calling functions with the used stack sizes of S, which grow with the depth
RECURSIVE FramesWith(_)
FramesWith(S) ==
    IF S = {} THEN <<>>
    ELSE LET top == CHOOSE x \in S : \A y \in S : y <= x
         IN  Append(FramesWith(S \ {top}),
                    [Function |-> functions[1], returnAddress |-> 2, usedStackSize |-> top])

InitSkip ==
    /\ mem = text
    /\ regs = [t \in Threads |-> [Rip |-> 1, Rsp |-> stackHi(t) - 16]]
    /\ pending = {}
    /\ attached = TRUE
    /\ binaryOpen = TRUE
    /\ breakpoints = EmptyMap
    /\ trace = <<>>
    /\ err = "nil"
    /\ call = Called("LaunchProcess", 0, 0, 0)
    /\ \E S \in (SUBSET FrameSizes) \ {{}} :
           statusStore = MapPut(EmptyMap, 1, [callingFunctions |-> FramesWith(S),
                                              panicking |-> TRUE])
    /\ tracingPoint = NoTracingPoint
    /\ depth = 0
    /\ hitOnce = FALSE
    /\ interrupted = FALSE
    /\ output = <<>>
    /\ loop = "handling"
    /\ queue = <<>>

\* findNumFramesToSkip is called; the number it returns is put in output
CallFindNumFramesToSkip ==
    \E size \in DeferSizes :
        /\ output' = <<findNumFramesToSkip(statusStore[1].callingFunctions, size)>>
        /\ call' = Called("findNumFramesToSkip", 0, size, 1)
        /\ UNCHANGED <<mem, regs, pending, attached, binaryOpen, breakpoints, trace, err,
                       statusStore, tracingPoint, depth, hitOnce, interrupted, loop, queue>>

SpecSkip == InitSkip /\ [][CallFindNumFramesToSkip]_vars

\* the number of entries at the end of callingFuncs whose used stack size is >= size
Trailing(callingFuncs, size) ==
    Cardinality({i \in 1..Len(callingFuncs) :
                    \A j \in i..Len(callingFuncs) : callingFuncs[j].usedStackSize >= size})

\* C32: findNumFramesToSkip returns the number of trailing calling functions whose
\* used stack size is >= the one of the defer, also when that holds of every entry.
C32_SkipsTrailing ==
    call.op = "findNumFramesToSkip" =>
        output = <<Trailing(statusStore[1].callingFunctions, call.addr)>>

\* what the code does: the number of trailing entries when some entry is below the
\* size of the defer, and one less than the length of the list when none is
C32_SkipsTrailingButOne ==
    call.op = "findNumFramesToSkip" =>
        LET callingFuncs == statusStore[1].callingFunctions
        IN  output = IF \E i \in 1..Len(callingFuncs) :
                            callingFuncs[i].usedStackSize < call.addr
                     THEN <<Trailing(callingFuncs, call.addr)>>
                     ELSE <<Len(callingFuncs) - 1>>

(***************************************************************************)
(* SpecAdjust: the loops of adjustFtabIndex, one turn at a time.  call     *)
(* holds the module data (tid), the pc (addr) and ftabIdx (gid); queue     *)
(* holds the index the search started with; loop is the loop that runs.    *)
(***************************************************************************)
Searching == loop \in {"backward", "forward"}

\* the pcs of module md the search is made for
SearchPCs(md) ==
    {pc \in LookupPCs : md_minpc(mem, md) <= pc /\ pc < md_maxpc(mem, md)}

\* ftabIdx is capped at ftabLen - 1 and the loop is chosen
AdjustStart ==
    \E md \in ModuleDataSet :
        \E pc \in SearchPCs(md), ftabIdx \in 0..(md_ftabLen(mem, md) + 1) :
            LET ftabLen == md_ftabLen(mem, md)
                idx == IF ftabIdx >= ftabLen THEN ftabLen - 1 ELSE ftabIdx
            IN  /\ loop = "init"
                /\ loop' = IF pc < md_functab(mem, md, idx).entry THEN "backward" ELSE "forward"
                /\ call' = Called("adjustFtabIndex", md, pc, idx)
                /\ queue' = <<ftabIdx>>
                /\ UNCHANGED <<mem, regs, pending, attached, binaryOpen, breakpoints, trace,
                               err, statusStore, tracingPoint, depth, hitOnce, interrupted,
                               output>>

\* for entry > pc && ftabIdx > 0 { ftabIdx-- }
AdjustBackwardStep ==
    /\ attached
    /\ loop = "backward"
    /\ md_functab(mem, call.tid, call.gid).entry > call.addr /\ call.gid > 0
    /\ call' = [call EXCEPT !.gid = @ - 1]
    /\ UNCHANGED <<mem, regs, pending, attached, binaryOpen, breakpoints, trace, err,
                   cvars>>

\* the loop is left; if ftabIdx == 0 { panic }
AdjustBackwardEnd ==
    /\ attached
    /\ loop = "backward"
    /\ ~(md_functab(mem, call.tid, call.gid).entry > call.addr /\ call.gid > 0)
    /\ loop' = "done"
    /\ err' = IF call.gid = 0 THEN "panic" ELSE "nil"
    /\ output' = <<call.gid>>
    /\ UNCHANGED <<mem, regs, pending, attached, binaryOpen, breakpoints, trace, call,
                   statusStore, tracingPoint, depth, hitOnce, interrupted, queue>>

\* mutant: the index is not advanced
AdjustForwardStep_Stay ==
    /\ attached
    /\ loop = "forward"
    /\ md_functab(mem, call.tid, call.gid + 1).entry <= call.addr
    /\ UNCHANGED vars

\* for nextEntry <= pc { ftabIdx++ }; an index past the table is not followed further
AdjustForwardStep ==
    /\ attached
    /\ loop = "forward"
    /\ md_functab(mem, call.tid, call.gid + 1).entry <= call.addr
    /\ call.gid <= md_ftabLen(mem, call.tid)
    /\ call' = [call EXCEPT !.gid = @ + 1]
    /\ UNCHANGED <<mem, regs, pending, attached, binaryOpen, breakpoints, trace, err,
                   cvars>>

AdjustForwardEnd ==
    /\ attached
    /\ loop = "forward"
    /\ ~(md_functab(mem, call.tid, call.gid + 1).entry <= call.addr)
    /\ loop' = "done"
    /\ err' = "nil"
    /\ output' = <<call.gid>>
    /\ UNCHANGED <<mem, regs, pending, attached, binaryOpen, breakpoints, trace, call,
                   statusStore, tracingPoint, depth, hitOnce, interrupted, queue>>

\* the transport is lost while the function runs: every read fails from here on
AdjustTransportLost ==
    /\ Searching
    /\ attached
    /\ attached' = FALSE
    /\ UNCHANGED <<mem, regs, pending, binaryOpen, breakpoints, trace, call, err, cvars>>

\* functab after a failed read of the ftab slice: retrieveArrayInSlice returns a nil
\* type, and the type assertion on it panics
AdjustFunctabPanics ==
    /\ Searching
    /\ ~attached
    /\ loop' = "done"
    /\ err' = "panic"
    /\ output' = <<>>
    /\ UNCHANGED <<mem, regs, pending, attached, binaryOpen, breakpoints, trace, call,
                   statusStore, tracingPoint, depth, hitOnce, interrupted, queue>>

NextAdjust ==
    \/ AdjustStart
    \/ AdjustTransportLost
    \/ AdjustFunctabPanics
    \/ AdjustBackwardStep
    \/ AdjustBackwardEnd
    \/ AdjustForwardStep
    \/ AdjustForwardEnd

\* the function runs on: a loop that can make a turn makes it
AdjustRuns ==
    \/ AdjustBackwardStep
    \/ AdjustBackwardEnd
    \/ AdjustForwardStep
    \/ AdjustForwardEnd
    \/ AdjustFunctabPanics

SpecAdjust == InitModuleData /\ [][NextAdjust]_vars /\ WF_vars(AdjustRuns)

\* the transport was lost in a loop, and the function was left
C33_Witness_TransportLost == loop = "done" /\ ~attached /\ err = "panic"

\* C33: for every module, every pc in [minpc, maxpc) and every index the search
\* starts with, the loop of adjustFtabIndex that is entered is left after finitely
\* many turns.
C33_AdjustTerminates == Searching ~> (loop = "done")

\* the turns are bounded: the index stays within the table, and the result is the
\* one of adjustFtabIndex
C33_AdjustWithinTable ==
    /\ Searching => call.gid \in 0..(md_ftabLen(mem, call.tid) - 1)
    /\ loop = "forward" => call.gid <= md_ftabLen(mem, call.tid) - 2
    /\ loop = "done" /\ attached =>
           /\ err = adjustFtabIndex(mem, call.tid, call.addr, queue[1]).err
           /\ err = "nil" =>
                  output = <<adjustFtabIndex(mem, call.tid, call.addr, queue[1]).ret>>

\* both loops have been left after two turns or more
C33_Witness ==
    /\ loop = "done"
    /\ attached
    /\ err = "nil"
    /\ call.op = "adjustFtabIndex"
    /\ queue[1] >= call.gid + 2

C33_Witness_Forward ==
    /\ loop = "done"
    /\ err = "nil"
    /\ call.op = "adjustFtabIndex"
    /\ queue[1] + 2 <= call.gid

(***************************************************************************)
(* SpecDescend: buildValue on an argument p *T of a frame of thread 1,     *)
(* with type T struct { next *T }, one descent through a pointer per step. *)
(* call.addr holds the word buildValue is called with; the nodes of the    *)
(* tracee are words of the stack of thread 2.                              *)
(***************************************************************************)
NodeAddrs == {stackHi(2) - 24, stackHi(2) - 16, stackHi(2) - 8}

Links == {0, Unmapped} \cup NodeAddrs

\* the reads of a call of the decoder are counted in call.gid, up to MaxReads
MaxReads == 5

\* the tracee runs until the argument is parsed: it stores the argument or links a node
TraceeLinksNode ==
    \E addr \in NodeAddrs \cup {ArgsBase}, w \in Links :
        /\ loop = "init"
        /\ mem' = [mem EXCEPT ![addr] = w]
        /\ call' = Called("tracee", 1, addr, 1)
        /\ UNCHANGED <<regs, pending, attached, binaryOpen, breakpoints, trace, err, cvars>>

\* the closure parseValue reads the argument and calls the decoder with its bytes
DescendStart ==
    /\ loop = "init"
    /\ call.op = "tracee"
    /\ loop' = "decoding"
    /\ call' = Called("buildValue", 1, mem[ArgsBase], 0)
    /\ output' = <<>>
    /\ UNCHANGED <<mem, regs, pending, attached, binaryOpen, breakpoints, trace, err,
                   statusStore, tracingPoint, depth, hitOnce, interrupted, queue>>

\* case *dwarf.PtrType with addr == 0: return nil
DescendNil ==
    /\ loop = "decoding"
    /\ call.addr = 0
    /\ loop' = "done"
    /\ output' = <<"nil">>
    /\ UNCHANGED <<mem, regs, pending, attached, binaryOpen, breakpoints, trace, err, call,
                   statusStore, tracingPoint, depth, hitOnce, interrupted, queue>>

\* case *dwarf.PtrType: ReadMemory(addr, buff) fails, break, return nil
DescendReadFails ==
    /\ loop = "decoding"
    /\ call.addr # 0
    /\ call.addr \notin DOMAIN mem
    /\ loop' = "done"
    /\ output' = <<"nil">>
    /\ UNCHANGED <<mem, regs, pending, attached, binaryOpen, breakpoints, trace, err, call,
                   statusStore, tracingPoint, depth, hitOnce, interrupted, queue>>

\* case *dwarf.PtrType: the pointed struct is read and built, and building its field
\* next calls buildValue with the word read
DescendPointer ==
    /\ loop = "decoding"
    /\ call.addr # 0
    /\ call.addr \in DOMAIN mem
    /\ call' = [call EXCEPT !.addr = mem[call.addr],
                             !.gid = IF @ < MaxReads THEN @ + 1 ELSE @]
    /\ UNCHANGED <<mem, regs, pending, attached, binaryOpen, breakpoints, trace, err, cvars>>

\* the value is returned to ParseValue, and the tracee runs on
DescendReturn ==
    /\ loop = "done"
    /\ loop' = "init"
    /\ call' = Called("ParseValue", 1, ArgsBase, 1)
    /\ UNCHANGED <<mem, regs, pending, attached, binaryOpen, breakpoints, trace, err,
                   statusStore, tracingPoint, depth, hitOnce, interrupted, output, queue>>

DescendRuns ==
    \/ DescendNil
    \/ DescendReadFails
    \/ DescendPointer

NextDescend ==
    \/ TraceeLinksNode
    \/ DescendStart
    \/ DescendNil
    \/ DescendReadFails
    \/ DescendPointer
    \/ DescendReturn

\* the decoder runs on: a call of buildValue that has been made is executed
SpecDescend == Init /\ [][NextDescend]_vars /\ WF_vars(DescendRuns)

\* the pointers from word w end (at nil or at a word that cannot be read) within n reads
RECURSIVE EndsWithin(_, _)
EndsWithin(w, n) ==
    \/ w = 0
    \/ w \notin DOMAIN mem
    \/ n > 0 /\ EndsWithin(mem[w], n - 1)

Cyclic(w) == ~EndsWithin(w, Cardinality(NodeAddrs))

\* C34: decoding a value always terminates, also when the pointers of the value form
\* a cycle: a call of the decoder is followed by its return.
C34_DecodingTerminates == (loop = "decoding") ~> (loop = "done")

\* what the decoder does: it returns when the pointers of the value end at nil or at
\* a word that cannot be read, and never when they form a cycle
C34_DecodingTerminates_Acyclic ==
    /\ (loop = "decoding" /\ ~Cyclic(call.addr)) ~> (loop = "done")
    /\ [](loop = "decoding" /\ Cyclic(call.addr) => [](loop = "decoding"))
    /\ [](loop = "done" => call.gid <= Cardinality(NodeAddrs))

\* a value of two nodes or more has been decoded
C34_Witness_Acyclic ==
    /\ loop = "done"
    /\ call.op = "buildValue"
    /\ call.gid >= 2
    /\ mem[ArgsBase] \in NodeAddrs
    /\ mem[mem[ArgsBase]] \in NodeAddrs

\* the decoder runs on a node that points to itself
C34_Witness_Cycle ==
    /\ loop = "decoding"
    /\ call.addr \in NodeAddrs
    /\ mem[call.addr] = call.addr
    /\ call.gid = MaxReads

(***************************************************************************)
(* tracer.Breakpoints: the registry of breakpoints with conditions.  A     *)
(* registry record b carries setBreakpoints, the calls of doSet and        *)
(* doClear made so far (trace), the index of the call that fails (failAt)  *)
(* and the error returned (err).  In SpecRegistry the variable breakpoints *)
(* holds setBreakpoints and trace the callbacks of the last operation.     *)
(***************************************************************************)
conditionalBreakpoint(addr) == [addr |-> addr, associations |-> <<>>]

conditionalBreakpoint_Hit(bp, goRoutineID) ==
    \/ \E i \in 1..Len(bp.associations) : bp.associations[i] = goRoutineID
    \/ Len(bp.associations) = 0

conditionalBreakpoint_NoAssociation(bp) == Len(bp.associations) = 0

conditionalBreakpoint_Associate(bp, goRoutineID) ==
    [bp EXCEPT !.associations = Append(@, goRoutineID)]

conditionalBreakpoint_Disassociate(bp, goRoutineID) ==
    LET i == FirstIndex(bp.associations, goRoutineID)
    IN  IF i = 0 THEN bp ELSE [bp EXCEPT !.associations = RemoveAt(@, i)]

\* the functions that actually set and clear a breakpoint: each call may fail
doSet(b, addr) ==
    IF Fails(b)
    THEN [b EXCEPT !.trace = Logged(b, "doSet", 0, addr, 0, FALSE), !.err = "error"]
    ELSE [b EXCEPT !.trace = Logged(b, "doSet", 0, addr, 0, TRUE), !.err = "nil"]

doClear(b, addr) ==
    IF Fails(b)
    THEN [b EXCEPT !.trace = Logged(b, "doClear", 0, addr, 0, FALSE), !.err = "error"]
    ELSE [b EXCEPT !.trace = Logged(b, "doClear", 0, addr, 0, TRUE), !.err = "nil"]

Breakpoints_Hit(b, addr, goRoutineID) ==
    /\ addr \in DOMAIN b.setBreakpoints
    /\ conditionalBreakpoint_Hit(b.setBreakpoints[addr], goRoutineID)

Breakpoints_Clear(b, addr) ==
    IF addr \notin DOMAIN b.setBreakpoints THEN [b EXCEPT !.err = "nil"]
    ELSE Try(doClear(b, addr), LAMBDA b1 :
             [b1 EXCEPT !.setBreakpoints = MapDelete(@, addr), !.err = "nil"])

Breakpoints_ClearConditional(b, addr, goRoutineID) ==
    IF addr \notin DOMAIN b.setBreakpoints THEN [b EXCEPT !.err = "nil"]
    ELSE LET b1 == [b EXCEPT !.setBreakpoints[addr] =
                                 conditionalBreakpoint_Disassociate(@, goRoutineID)]
         IN  IF ~conditionalBreakpoint_NoAssociation(b1.setBreakpoints[addr])
             THEN [b1 EXCEPT !.err = "nil"]
             ELSE Breakpoints_Clear(b1, addr)

\* the loop of ClearAllByGoRoutineID over the map, in the order the range visits it
RECURSIVE clearAllFrom(_, _, _)
clearAllFrom(b, order, goRoutineID) ==
    IF order = <<>> THEN [b EXCEPT !.err = "nil"]
    ELSE LET addr == Head(order)
             b1 == [b EXCEPT !.setBreakpoints[addr] =
                                 conditionalBreakpoint_Disassociate(@, goRoutineID)]
         IN  IF ~conditionalBreakpoint_NoAssociation(b1.setBreakpoints[addr])
             THEN clearAllFrom(b1, Tail(order), goRoutineID)
             ELSE Try(Breakpoints_Clear(b1, addr), LAMBDA b2 :
                      clearAllFrom(b2, Tail(order), goRoutineID))

Breakpoints_ClearAllByGoRoutineID(b, order, goRoutineID) ==
    clearAllFrom(b, order, goRoutineID)

\* mutant: a record that is present is left as it is
Breakpoints_Set_KeepRecord(b, addr) ==
    IF addr \notin DOMAIN b.setBreakpoints
    THEN Try(doSet(b, addr), LAMBDA b1 :
             [b1 EXCEPT !.setBreakpoints = MapPut(@, addr, conditionalBreakpoint(addr)),
                        !.err = "nil"])
    ELSE [b EXCEPT !.err = "nil"]

Breakpoints_Set(b, addr) ==
    LET put(b1) == [b1 EXCEPT !.setBreakpoints = MapPut(@, addr, conditionalBreakpoint(addr)),
                              !.err = "nil"]
    IN  IF addr \notin DOMAIN b.setBreakpoints
        THEN Try(doSet(b, addr), LAMBDA b1 : put(b1))
        ELSE put(b)

Breakpoints_SetConditional(b, addr, goRoutineID) ==
    IF addr \in DOMAIN b.setBreakpoints
    THEN IF ~conditionalBreakpoint_NoAssociation(b.setBreakpoints[addr])
         THEN [b EXCEPT !.setBreakpoints[addr] =
                            conditionalBreakpoint_Associate(@, goRoutineID),
                        !.err = "nil"]
         ELSE [b EXCEPT !.err = "nil"]
    ELSE Try(doSet(b, addr), LAMBDA b1 :
             [b1 EXCEPT !.setBreakpoints =
                            MapPut(@, addr, conditionalBreakpoint_Associate(
                                                conditionalBreakpoint(addr), goRoutineID)),
                        !.err = "nil"])

(***************************************************************************)
(* SpecRegistry: a client calls the operations of a registry made by       *)
(* NewBreakpoints, in any order, and any callback may fail.                *)
(***************************************************************************)
RegistryFailPoints == 0..2

Reg(failAt) == [setBreakpoints |-> breakpoints, trace |-> <<>>, failAt |-> failAt, err |-> "nil"]

\* the associations of the record at addr, <<>> when there is none
Associations(addr) ==
    IF addr \in DOMAIN breakpoints THEN breakpoints[addr].associations ELSE <<>>

CommitRegistry(b, op, addr, gid) ==
    /\ breakpoints' = b.setBreakpoints
    /\ trace' = b.trace
    /\ err' = b.err
    /\ call' = Called(op, Len(Associations(addr)), addr, gid)
    /\ UNCHANGED <<mem, regs, pending, attached, binaryOpen, cvars>>

CallRegistrySet ==
    \E addr \in Addrs, failAt \in RegistryFailPoints :
        CommitRegistry(Breakpoints_Set(Reg(failAt), addr), "Set", addr, 0)

CallRegistrySetConditional ==
    \E addr \in Addrs, goRoutineID \in RoutineIDs, failAt \in RegistryFailPoints :
        /\ Len(Associations(addr)) < MaxTargets
        /\ CommitRegistry(Breakpoints_SetConditional(Reg(failAt), addr, goRoutineID),
                          "SetConditional", addr, goRoutineID)

CallRegistryClear ==
    \E addr \in Addrs, failAt \in RegistryFailPoints :
        CommitRegistry(Breakpoints_Clear(Reg(failAt), addr), "Clear", addr, 0)

CallRegistryClearConditional ==
    \E addr \in Addrs, goRoutineID \in RoutineIDs, failAt \in RegistryFailPoints :
        CommitRegistry(Breakpoints_ClearConditional(Reg(failAt), addr, goRoutineID),
                       "ClearConditional", addr, goRoutineID)

CallRegistryClearAllByGoRoutineID ==
    \E goRoutineID \in RoutineIDs, failAt \in RegistryFailPoints :
        \E order \in Orders(DOMAIN breakpoints) :
            CommitRegistry(Breakpoints_ClearAllByGoRoutineID(Reg(failAt), order, goRoutineID),
                           "ClearAllByGoRoutineID", 0, goRoutineID)

NextRegistry ==
    \/ CallRegistrySet
    \/ CallRegistrySetConditional
    \/ CallRegistryClear
    \/ CallRegistryClearConditional
    \/ CallRegistryClearAllByGoRoutineID

SpecRegistry == Init /\ [][NextRegistry]_vars

\* C35: Set(addr) on an address that holds a conditional breakpoint returns no error,
\* calls neither callback, leaves the other records alone, and afterwards
\* Hit(addr, r) is true for every routine r.
C35_SetRemovesConditions ==
    \A addr \in Addrs, failAt \in RegistryFailPoints :
        (addr \in DOMAIN breakpoints /\ Associations(addr) # <<>>) =>
            LET b == Breakpoints_Set(Reg(failAt), addr)
            IN  /\ b.err = "nil"
                /\ b.trace = <<>>
                /\ \A r \in RoutineIDs : Breakpoints_Hit(b, addr, r)
                /\ DOMAIN b.setBreakpoints = DOMAIN breakpoints
                /\ \A a \in DOMAIN breakpoints \ {addr} : b.setBreakpoints[a] = breakpoints[a]

\* Set has been called on a breakpoint with conditions, for a routine that did not
\* hit it
C35_Witness ==
    /\ call.op = "Set"
    /\ call.tid > 0
    /\ err = "nil"
    /\ trace = <<>>
    /\ Associations(call.addr) = <<>>

(***************************************************************************)
(* lib/tracer: On and Off, called by the go routines of the traced         *)
(* program.  In SpecLib the variable mem holds the package-level variables *)
(* (serverCmd, client, serverMtx) and the world they act on: the server    *)
(* processes alive, the connections open, the Attach calls each server     *)
(* got; statusStore holds the position of each caller.  An external call   *)
(* (exec, dial, RPC, Close, Kill) succeeds or fails.                       *)
(***************************************************************************)
Callers == {1, 2}

\* the cap on the servers started
MaxServers == 3

InitLib ==
    /\ mem = [serverCmd |-> 0, client |-> 0, serverMtx |-> 0, started |-> 0,
              servers |-> {}, open |-> {}, attaches |-> [k \in 1..MaxServers |-> 0],
              failed |-> FALSE, panicked |-> FALSE]
    /\ statusStore = [c \in Callers |-> [op |-> "", pc |-> "idle", err |-> "nil"]]
    /\ regs = [t \in Threads |-> [Rip |-> 1, Rsp |-> stackHi(t) - 16]]
    /\ pending = {}
    /\ attached = FALSE
    /\ binaryOpen = FALSE
    /\ breakpoints = EmptyMap
    /\ trace = <<>>
    /\ err = "nil"
    /\ call = Called("init", 0, 0, 0)
    /\ tracingPoint = NoTracingPoint
    /\ depth = 0
    /\ hitOnce = FALSE
    /\ interrupted = FALSE
    /\ output = <<>>
    /\ loop = "init"
    /\ queue = <<>>

LibUnchanged ==
    UNCHANGED <<regs, pending, attached, binaryOpen, breakpoints, trace, err, call,
                tracingPoint, depth, hitOnce, interrupted, output, loop, queue>>

At(c, pc) == ~mem.panicked /\ statusStore[c].pc = pc

Goto(c, pc) == statusStore' = [statusStore EXCEPT ![c].pc = pc]

\* return e, with the deferred serverMtx.Unlock()
Return(c, m, e) ==
    /\ mem' = [m EXCEPT !.serverMtx = 0]
    /\ statusStore' = [statusStore EXCEPT ![c].pc = "idle", ![c].err = e]

\* a run-time panic (nil pointer dereference) ends the program
Panics(c, m) ==
    /\ mem' = [m EXCEPT !.panicked = TRUE]
    /\ statusStore' = [statusStore EXCEPT ![c].pc = "idle", ![c].err = "panic"]

\* an RPC can succeed when the client is connected to a server that is alive
Connected(m) == m.client \in m.open /\ m.client \in m.servers

\* terminateServer: client.Close(), serverCmd.Process.Kill(), Process.Wait(), and the
\* deferred serverCmd = nil.  outcome names the call that fails.  ret is "panic" when
\* client or serverCmd.Process is nil.
terminateServer(m, outcome) ==
    LET m0 == [m EXCEPT !.serverCmd = 0]
    IN  IF m.client = 0 THEN [m |-> m0, ret |-> "panic"]
        ELSE IF m.client \notin m.open \/ outcome = "Close"
        THEN [m |-> [m0 EXCEPT !.failed = TRUE], ret |-> "error"]
        ELSE LET m1 == [m0 EXCEPT !.open = @ \ {m.client}]
             IN  IF m.serverCmd \notin m.servers THEN [m |-> m1, ret |-> "panic"]
                 ELSE IF outcome = "Kill"
                 THEN [m |-> [m1 EXCEPT !.failed = TRUE], ret |-> "error"]
                 ELSE LET m2 == [m1 EXCEPT !.servers = @ \ {m.serverCmd}]
                      IN  IF outcome = "Wait"
                          THEN [m |-> [m2 EXCEPT !.failed = TRUE], ret |-> "error"]
                          ELSE [m |-> m2, ret |-> "nil"]

TerminateOutcomes == {"ok", "Close", "Kill", "Wait"}

\* terminateServer is called and the caller returns e (or what terminateServer returns)
TerminateAndReturn(c, m, outcome, e) ==
    LET r == terminateServer(m, outcome)
    IN  IF r.ret = "panic" THEN Panics(c, r.m)
        ELSE Return(c, r.m, IF e = "" THEN r.ret ELSE e)

\* a go routine of the program calls On or Off
LibCall ==
    \E c \in Callers, op \in {"On", "Off"} :
        /\ At(c, "idle")
        /\ statusStore' = [statusStore EXCEPT ![c] = [op |-> op, pc |-> "Lock", err |-> "nil"]]
        /\ UNCHANGED mem
        /\ LibUnchanged

\* mutant: the mutex is not taken
LibLock_NoMutex ==
    \E c \in Callers :
        /\ At(c, "Lock")
        /\ Goto(c, IF statusStore[c].op = "On" THEN "initialize" ELSE "Off")
        /\ UNCHANGED mem
        /\ LibUnchanged

\* serverMtx.Lock()
LibLock ==
    \E c \in Callers :
        /\ At(c, "Lock")
        /\ mem.serverMtx = 0
        /\ mem' = [mem EXCEPT !.serverMtx = c]
        /\ Goto(c, IF statusStore[c].op = "On" THEN "initialize" ELSE "Off")
        /\ LibUnchanged

\* initialize: if serverCmd != nil { return nil }
OnInitialize ==
    \E c \in Callers :
        /\ At(c, "initialize")
        /\ Goto(c, IF mem.serverCmd # 0 THEN "AddStartTracePoint" ELSE "startServer")
        /\ UNCHANGED mem
        /\ LibUnchanged

\* startServer: findUnusedPort fails before serverCmd is assigned; serverCmd.Start()
\* fails after it
OnStartServer ==
    \E c \in Callers, outcome \in {"ok", "findUnusedPort", "Start"} :
        /\ At(c, "startServer")
        /\ mem.started < MaxServers
        /\ LET k == mem.started + 1
               m == [mem EXCEPT !.started = k, !.serverCmd = k]
           IN  CASE outcome = "findUnusedPort" ->
                        Return(c, [mem EXCEPT !.failed = TRUE], "error")
                 [] outcome = "Start" ->
                        Return(c, [m EXCEPT !.failed = TRUE], "error")
                 [] OTHER ->
                        /\ mem' = [m EXCEPT !.servers = @ \cup {k}]
                        /\ Goto(c, "connectServer")
        /\ LibUnchanged

\* client, err = connectServer(addr): client is nil when every dial has failed
OnConnectServer ==
    \E c \in Callers, ok \in BOOLEAN, outcome \in TerminateOutcomes :
        /\ At(c, "connectServer")
        /\ IF ok
           THEN /\ mem' = [mem EXCEPT !.client = mem.serverCmd, !.open = @ \cup {mem.serverCmd}]
                /\ Goto(c, "Attach")
           ELSE TerminateAndReturn(c, [mem EXCEPT !.client = 0, !.failed = TRUE], outcome,
                                   "error")
        /\ LibUnchanged

\* client.Call("Tracer.Attach", ...)
OnAttach ==
    \E c \in Callers, ok \in BOOLEAN, outcome \in TerminateOutcomes :
        /\ At(c, "Attach")
        /\ IF ok /\ Connected(mem)
           THEN /\ mem' = [mem EXCEPT !.attaches[mem.client] = @ + 1]
                /\ Goto(c, "AddStartTracePoint")
           ELSE TerminateAndReturn(c, [mem EXCEPT !.failed = TRUE], outcome, "error")
        /\ LibUnchanged

\* client.Call("Tracer.AddStartTracePoint", ...)
OnAddStartTracePoint ==
    \E c \in Callers, ok \in BOOLEAN :
        /\ At(c, "AddStartTracePoint")
        /\ IF mem.client = 0 THEN Panics(c, mem)
           ELSE IF ok /\ Connected(mem)
           THEN Goto(c, "AddEndTracePoint") /\ UNCHANGED mem
           ELSE Return(c, [mem EXCEPT !.failed = TRUE], "error")
        /\ LibUnchanged

\* client.Call("Tracer.AddEndTracePoint", ...), return nil
OnAddEndTracePoint ==
    \E c \in Callers, ok \in BOOLEAN :
        /\ At(c, "AddEndTracePoint")
        /\ IF ok /\ Connected(mem)
           THEN Return(c, mem, "nil")
           ELSE Return(c, [mem EXCEPT !.failed = TRUE], "error")
        /\ LibUnchanged

\* Off: if serverCmd == nil { return nil }
OffCheck ==
    \E c \in Callers :
        /\ At(c, "Off")
        /\ IF mem.serverCmd = 0
           THEN Return(c, mem, "nil")
           ELSE Goto(c, "Detach") /\ UNCHANGED mem
        /\ LibUnchanged

\* client.Call("Tracer.Detach", ...) and terminateServer
OffDetach ==
    \E c \in Callers, ok \in BOOLEAN, outcome \in TerminateOutcomes :
        /\ At(c, "Detach")
        /\ IF mem.client = 0 THEN Panics(c, mem)
           ELSE IF ok /\ Connected(mem)
           THEN TerminateAndReturn(c, mem, outcome, "")
           ELSE TerminateAndReturn(c, [mem EXCEPT !.failed = TRUE], outcome, "error")
        /\ LibUnchanged

NextLib ==
    \/ LibCall
    \/ LibLock
    \/ OnInitialize
    \/ OnStartServer
    \/ OnConnectServer
    \/ OnAttach
    \/ OnAddStartTracePoint
    \/ OnAddEndTracePoint
    \/ OffCheck
    \/ OffDetach

SpecLib == InitLib /\ [][NextLib]_vars

\* the callers between Lock and Unlock
Inside == {c \in Callers : statusStore[c].pc \notin {"idle", "Lock"}}

OneServerAtATime ==
    /\ Cardinality(mem.servers) <= 1
    /\ \A k \in 1..MaxServers : mem.attaches[k] <= 1
    /\ \A c \in Callers : statusStore[c].pc = "Detach" => mem.servers # {}

\* C36: at most one tracer server is alive at a time, a server gets Tracer.Attach at
\* most once, and Off issues an RPC only when a server is running.
C36_OneServerAtATime ==
    /\ Cardinality(Inside) <= 1
    /\ OneServerAtATime

\* what the code does: On and Off exclude each other, and the servers are one at a
\* time as long as no external call has failed
C36_OneServerAtATime_NoFailure ==
    /\ Cardinality(Inside) <= 1
    /\ ~mem.failed =>
           /\ OneServerAtATime
           /\ mem.serverCmd # 0 => mem.servers = {mem.serverCmd}
           /\ mem.serverCmd = 0 => mem.servers = {}

\* two servers are alive
C36_Witness_TwoServers == Cardinality(mem.servers) = 2

\* Off is about to call Tracer.Detach, and no server has ever been started
C36_Witness_DetachWithoutServer ==
    \E c \in Callers :
        statusStore[c].pc = "Detach" /\ mem.servers = {} /\ mem.client = 0

\* two callers have been served one after the other without a failure: the second On
\* found the server of the first
C36_Witness_NoFailure ==
    /\ ~mem.failed
    /\ mem.attaches[1] = 1
    /\ \E c, d \in Callers :
           /\ c # d
           /\ statusStore[c].pc = "Lock" /\ statusStore[c].op = "On"
           /\ statusStore[d].pc = "AddEndTracePoint"

\* the transport call of a breakpoint operation that fails: the first or the second
BreakpointFailPoints == 1..2

\* the operation that ended in p failed and left the registry and the memory as they were
FailedAndUntouched(p) == p.err # "nil" => (p.breakpoints = breakpoints /\ p.mem = mem)

\* C37: a breakpoint operation that fails because a memory read or write of the
\* transport fails leaves the registry exactly as it was: a failed SetBreakpoint or
\* SetConditionalBreakpoint adds no record, a failed ClearBreakpoint or
\* ClearConditionalBreakpoint removes neither the record nor a go routine from its
\* targets.
C37_FailedOperationLeavesRegistry ==
    \A addr \in Addrs, failAt \in BreakpointFailPoints :
        /\ FailedAndUntouched(SetBreakpoint(Proc(failAt), addr))
        /\ FailedAndUntouched(ClearBreakpoint(Proc(failAt), addr))
        /\ \A goRoutineID \in GoRoutines :
               /\ FailedAndUntouched(SetConditionalBreakpoint(Proc(failAt), addr, goRoutineID))
               /\ FailedAndUntouched(ClearConditionalBreakpoint(Proc(failAt), addr, goRoutineID))

\* what the code does: a failed ClearConditionalBreakpoint keeps the record and the
\* memory, and has removed the go routine from the targets, which leaves none: the
\* breakpoint now is one every go routine hits
C37_FailedOperationLeavesRegistry_ButTarget ==
    \A addr \in Addrs, failAt \in BreakpointFailPoints :
        /\ FailedAndUntouched(SetBreakpoint(Proc(failAt), addr))
        /\ FailedAndUntouched(ClearBreakpoint(Proc(failAt), addr))
        /\ \A goRoutineID \in GoRoutines :
               /\ FailedAndUntouched(SetConditionalBreakpoint(Proc(failAt), addr, goRoutineID))
               /\ LET p == ClearConditionalBreakpoint(Proc(failAt), addr, goRoutineID)
                  IN  p.err # "nil" =>
                          /\ p.mem = mem
                          /\ DOMAIN p.breakpoints = DOMAIN breakpoints
                          /\ \A a \in DOMAIN breakpoints \ {addr} :
                                 p.breakpoints[a] = breakpoints[a]
                          /\ p.breakpoints[addr] = RemoveTarget(breakpoints[addr], goRoutineID)
                          /\ NoTarget(p.breakpoints[addr])
                          /\ \A id \in RoutineIDs : HitBreakpoint(p, addr, id)

\* a breakpoint with one target, which another go routine does not hit: the state in
\* which a failed ClearConditionalBreakpoint makes every go routine hit it
C37_Witness_LastTarget ==
    \E addr \in DOMAIN breakpoints, id \in GoRoutines :
        /\ breakpoints[addr].targetGoRoutineIDs = <<id>>
        /\ \E other \in GoRoutines : ~HitBreakpoint(Proc(0), addr, other)
        /\ ClearConditionalBreakpoint(Proc(1), addr, id).err # "nil"

\* the transport call of a handler that fails
HandlerFailPoints == 1..4

\* no trap instruction is left in the text of the tracee held by m
NoTrapByte(m) == \A a \in CodeAddrs : m[a] = text[a]

\* C38: whenever MainLoop returns while the tracee has not exited, because of an
\* interrupt or because the handling of a trapped thread failed, no trap instruction
\* written by the tracer remains in the memory of the tracee.
C38_NoTrapByteAfterReturn ==
    /\ (Returned /\ ~IsExitEvent(call.op)) => NoTrapByte(mem)
    /\ (loop = "handling" /\ queue # <<>>) =>
           \A failAt \in HandlerFailPoints :
               LET c == handleTrapEventOfThread(Ctl(failAt), Head(queue))
               IN  c.err # "nil" => NoTrapByte(c.mem)

\* what the code does: MainLoop detaches only after an interrupt, and a Detach that
\* succeeds leaves no trap instruction; a handler that fails makes MainLoop return
\* as it is, attached and with a breakpoint still in the registry and in memory
C38_NoTrapByteAfterInterrupt ==
    /\ (Returned /\ ~IsExitEvent(call.op)) =>
           (ReturnedInterrupted /\ breakpoints = EmptyMap /\ NoTrapByte(mem))
    /\ (loop = "handling" /\ queue = <<>> /\ interrupted) =>
           \A order \in Orders(DOMAIN breakpoints) :
               NoTrapByte(Detach(Ctl(0), order).mem)
    /\ (loop = "handling" /\ queue # <<>>) =>
           \A failAt \in HandlerFailPoints :
               LET c == handleTrapEventOfThread(Ctl(failAt), Head(queue))
               IN  c.err # "nil" =>
                       /\ c.attached
                       /\ \E a \in DOMAIN c.breakpoints : c.mem[a] = breakpointInsts

\* a handler is about to run whose first transport call can fail, with breakpoints set
C38_Witness_HandlerFails ==
    /\ loop = "handling"
    /\ queue # <<>>
    /\ hitOnce
    /\ handleTrapEventOfThread(Ctl(1), Head(queue)).err # "nil"
    /\ ~NoTrapByte(handleTrapEventOfThread(Ctl(1), Head(queue)).mem)

(***************************************************************************)
(* SpecUnwind: the controller with the depth it is made with, on a tracee  *)
(* whose go routines recover from panics.  A panic that a deferred call of *)
(* the function at depth k recovers abandons the frames above k, and that  *)
(* function returns to its caller.                                         *)
(***************************************************************************)
TraceeRecovers ==
    \E t \in Threads :
        \E k \in 1..(FrameDepth(t) - 1) :
            /\ Running(t)
            /\ LET slot == stackHi(t) - 24 * k
               IN  /\ mem[slot] \in CodeAddrs
                   /\ Arrive(t, mem[slot], slot + 8, mem)

NextUnwind ==
    \/ CallSetTracingPoint
    \/ CallInterrupt
    \/ MainLoop
    \/ TraceeCall
    \/ TraceeReturn
    \/ TraceeMoreStack
    \/ TraceeRecovers
    \/ ContinueAndWaitTrapped
    \/ ContinueAndWaitExited
    \/ HandleTrapEventOfThread
    \/ HandleTrapEventInterrupted
    \/ HandleTrapEventContinue

SpecUnwind == Init /\ [][NextUnwind]_vars

\* the calling functions of the go routine of the thread at the head of the queue
HeadFrames == statusOf(CurCtl, HeadRoutine.ID).callingFunctions

\* C39: whenever the trap of go routine r is handled as a function return, the trap
\* address is the return address recorded in the newest entry of r's calling
\* functions, and the stack of r is where the call of that entry left it once its
\* return address is popped: the entry that is popped is the one of the frame that
\* returned.
C39_ReturnTrapAtNewestReturnAddress ==
    IsReturnTrap =>
        LET threadID == Head(queue)
            id == HeadRoutine.ID
            pc == regs[threadID].Rip - 1
            newest == HeadFrames[Len(HeadFrames)]
            r == handleTrapEventOfThread(CurCtl, threadID)
        IN  /\ Len(HeadFrames) >= 1
            /\ newest.returnAddress = pc
            /\ HeadRoutine.UsedStackSize = newest.usedStackSize - 8
            /\ r.err = "nil" =>
                   statusOf(r, id).callingFunctions = SubSeq(HeadFrames, 1, Len(HeadFrames) - 1)

\* a return trap of a go routine with two tracked frames that return to different
\* addresses
C39_Witness ==
    /\ IsReturnTrap
    /\ Len(HeadFrames) >= 2
    /\ HeadFrames[Len(HeadFrames)].returnAddress # HeadFrames[Len(HeadFrames) - 1].returnAddress
    /\ handleTrapEventOfThread(CurCtl, Head(queue)).err = "nil"

\* a return trap at the return address of an older entry: the frames of the newer
\* entries were abandoned
C39_Witness_Abandoned ==
    /\ IsReturnTrap
    /\ Len(HeadFrames) >= 2
    /\ HeadFrames[Len(HeadFrames)].returnAddress # regs[Head(queue)].Rip - 1
    /\ HeadFrames[Len(HeadFrames) - 1].returnAddress = regs[Head(queue)].Rip - 1

\* C40: a trap is handled as a function return only when the go routine has at least
\* one calling function: the return handler reads and pops the newest entry of a list
\* that is not empty, and never ends in an index out of range.
C40_ReturnHandlerHasFrame ==
    /\ IsReturnTrap =>
           /\ Len(HeadFrames) >= 1
           /\ handleTrapEventOfThread(CurCtl, Head(queue)).err # "panic"
    /\ (loop = "handling" /\ queue # <<>> /\ HeadHits /\ HeadFrames = <<>>) =>
           /\ ~IsReturnTrap
           /\ usedStackSize(statusOf(CurCtl, HeadRoutine.ID)) = 0
           /\ HeadRoutine.UsedStackSize >= 0

\* a trap of a go routine without calling functions, at a breakpoint it hits, after
\* its calling functions were popped: it is handled as a call
C40_Witness ==
    /\ loop = "handling" /\ queue # <<>>
    /\ HeadHits
    /\ HeadRoutine.ID \in DOMAIN statusStore
    /\ HeadFrames = <<>>
    /\ IsCallTrap

====
